---- MODULE Spec2Model ----
(***************************************************************************)
(* Worker-side core of the workflow SDK: the Workflow Task Manager          *)
(* (core/src/workflow/workflow_tasks/mod.rs) and the Worker Activity Tasks  *)
(* (core/src/worker/activities.rs).                                         *)
(*                                                                          *)
(* Spec    : the workflow task manager, driven by one poll loop, by the     *)
(*           language host replying to activations, by local-activity       *)
(*           resolutions and by eviction requests.                          *)
(* SpecAct : the activity tasks, driven by concurrent poll() and            *)
(*           complete() calls and by server-initiated cancels.              *)
(*                                                                          *)
(* Synchronous code between two awaits is one atomic step; an async method  *)
(* is cut at its awaits (the position is kept in poller / completion / the  *)
(* activity call records).                                                  *)
(***************************************************************************)
EXTENDS Integers, Sequences, FiniteSets, TLC

\* ------------------------------------------------------------- bounds
Runs == {"r1", "r2"}
\* the runs the server hands out tasks for
PolledRuns == {"r1"}
\* number of workflow task poll responses the server hands out
MaxPolls == 2
\* jobs the machines put in one activation
MaxJobs == 1
\* in-poll query requests of one poll response
MaxQueries == 2
\* outstanding local activities of one run
MaxLA == 1
\* activations handed to the host and not yet replied to, per run
MaxHost == 2

\* ------------------------------------------------------------- options
None == <<>>
Some(x) == <<x>>
IsSome(o) == o /= <<>>
Unwrap(o) == o[1]

SeqRemoveAt(q, i) == SubSeq(q, 1, i - 1) \o SubSeq(q, i + 1, Len(q))
InSeq(x, q) == \E i \in 1..Len(q) : q[i] = x

\* ------------------------------------------------------------- state
VARIABLES
  workflow_machines,     \* run_id -> Option of {machines, wft, activation, buffered_resp}
  pending_activations,   \* FIFO of {run_id, needs_eviction}
  pending_queries,       \* FIFO of query-only activations
  ready_buffered_wft,    \* FIFO of poll responses ready to be applied
  cache_manager,         \* run ids in recency order, least recent first
  sticky,                \* caching policy: TRUE = Sticky{CacheCap}, FALSE = NonSticky
  panics,                \* the panics / expect failures hit so far
  poller,                \* position of the poll loop
  completion,            \* run_id -> position of the host's reply for that run
  hostHas,               \* run_id -> the activations the host holds and has not replied to
  nextTok,               \* serial number of the next poll response of the server
  arrivedBusy,           \* task tokens of the poll responses that arrived for a run with an outstanding task
  parked,                \* the polls set aside for a full cache: {task_token, evicted run}
  lastOp,                \* the last operation and what it returned
  sinceReport,           \* run_id -> after_wft_report ran since the last activation issued
  outstanding_activity_tasks,  \* task token -> Option of {issued_cancel_to_lang, known_not_found}
  activities_semaphore,  \* available permits
  pending_cancels,       \* the heartbeat manager's queue of {task_token, reason}
  act_poll,              \* caller -> position of its poll() call
  act_complete,          \* caller -> position of its complete() call
  nextActTok,            \* serial number of the next activity task of the server
  cancelsMade,           \* cancels the server has asked for so far
  wait_all,              \* position of the wait_all_finished() call
  heartbeat,             \* the record_heartbeat() call: what it reads, and what it did
  wft_wait,              \* the clock, and a successful_activation() call from its wait on
  actLast                \* the last activity call that returned, and its result

actVars == <<outstanding_activity_tasks, activities_semaphore, pending_cancels, act_poll,
             act_complete, nextActTok, cancelsMade, wait_all, heartbeat, wft_wait,
             actLast>>

wtmVars == <<workflow_machines, pending_activations, pending_queries, ready_buffered_wft,
             cache_manager, sticky, panics, poller, completion, hostHas, nextTok,
             arrivedBusy, parked,
             lastOp, sinceReport>>

\* What the server has done so far.
server == <<nextTok, arrivedBusy, parked>>

\* The manager's fields threaded through one handler.
Cur == [wm |-> workflow_machines, pa |-> pending_activations, pq |-> pending_queries,
        ready |-> ready_buffered_wft, cache |-> cache_manager, sticky |-> sticky,
        panics |-> panics, notify |-> <<>>]

Commit(s) ==
  /\ workflow_machines' = s.wm
  /\ pending_activations' = s.pa
  /\ pending_queries' = s.pq
  /\ ready_buffered_wft' = s.ready
  /\ cache_manager' = s.cache
  /\ panics' = s.panics
  /\ sticky' = sticky
  /\ UNCHANGED actVars

\* A handler's result: the fields after it and what it returned.
Ret(s, v) == [s |-> s, ret |-> v]

\* ------------------------------------------------- records of the source
\* OutstandingActivation::Normal / LegacyQuery
Normal(contains_eviction, num_jobs) ==
  [kind |-> "Normal", contains_eviction |-> contains_eviction, num_jobs |-> num_jobs]
LegacyQuery == [kind |-> "LegacyQuery"]

has_only_eviction(a) == a.kind = "Normal" /\ a.contains_eviction /\ a.num_jobs = 1
has_eviction(a) == a.kind = "Normal" /\ a.contains_eviction

\* OutstandingTask {info: {task_token, attempt}, pending_queries}
OutstandingTask(tok, attempt, pqs) ==
  [task_token |-> tok, attempt |-> attempt, pending_queries |-> pqs]

\* Jobs of an activation: "job" (from history), "query" (in-poll query),
\* "legacy_query" (query with id LEGACY_QUERY_ID), "evict" (RemoveFromCache).
LEGACY_QUERY_ID == "legacy_query"
WorkflowActivation(run, jobs) == [run_id |-> run, jobs |-> jobs]
is_legacy_query(act) == act.jobs = <<LEGACY_QUERY_ID>>
has_evict_job(act) == InSeq("evict", act.jobs)
create_query_activation(run, query) == WorkflowActivation(run, <<query>>)
JobsOf(n) == [i \in 1..n |-> "job"]
QueriesOf(n) == [i \in 1..n |-> "query"]

\* A validated poll response of the server.
PollResp(run, tok, attempt, incremental, nq, lq) ==
  [run_id |-> run, task_token |-> tok, attempt |-> attempt,
   incremental |-> incremental, query_requests |-> nq, legacy_query |-> lq]

\* ------------------------------------- WorkflowConcurrencyManager (4.4)
NewRun == [mjobs |-> 0, las |-> 0, wft |-> None, activation |-> None,
           buffered_resp |-> None]
RunOf(s, run) == Unwrap(s.wm[run])
SetRun(s, run, f, v) == [s EXCEPT !.wm[run] = Some([RunOf(s, run) EXCEPT ![f] = v])]

exists(s, run) == IsSome(s.wm[run])
get_task(s, run) == IF exists(s, run) THEN RunOf(s, run).wft ELSE None
get_activation(s, run) == IF exists(s, run) THEN RunOf(s, run).activation ELSE None

\* insert_wft: Err (ret FALSE) if the run is missing.
insert_wft(s, run, task) ==
  IF exists(s, run) THEN Ret(SetRun(s, run, "wft", Some(task)), TRUE) ELSE Ret(s, FALSE)

\* insert_activation: Err if the run is missing, else Ok(previous).
insert_activation(s, run, a) ==
  IF exists(s, run)
  THEN Ret(SetRun(s, run, "activation", Some(a)),
           [ok |-> TRUE, previous |-> RunOf(s, run).activation])
  ELSE Ret(s, [ok |-> FALSE, previous |-> None])

delete_activation(s, run) ==
  IF exists(s, run) THEN SetRun(s, run, "activation", None) ELSE s

\* As complete_wft, but a reported completion does not force the removal.
complete_wft_only_final(s, run, reported, saw_final) ==
  IF ~exists(s, run) \/ ~saw_final THEN Ret(s, None)
  ELSE Ret(SetRun(s, run, "wft", None), RunOf(s, run).wft)

\* complete_wft: the task is removed iff the completion was reported or the
\* machines have seen the final event.
complete_wft(s, run, reported, saw_final) ==
  IF ~exists(s, run) \/ (~saw_final /\ ~reported) THEN Ret(s, None)
  ELSE Ret(SetRun(s, run, "wft", None), RunOf(s, run).wft)

\* buffer_resp_if_outstanding_work: a full slot is a protocol violation.
buffer_resp_if_outstanding_work(s, poll) ==
  LET run == poll.run_id IN
  IF exists(s, run) /\ (IsSome(RunOf(s, run).wft) \/ IsSome(RunOf(s, run).activation))
  THEN Ret([SetRun(s, run, "buffered_resp", Some(poll)) EXCEPT
              !.panics = IF IsSome(RunOf(s, run).buffered_resp)
                         THEN @ \cup {"buffer slot full"} ELSE @],
           None)
  ELSE Ret(s, Some(poll))

take_buffered_poll(s, run) ==
  IF exists(s, run)
  THEN Ret(SetRun(s, run, "buffered_resp", None), RunOf(s, run).buffered_resp)
  ELSE Ret(s, None)

\* evict: destroys the run, returns its buffered poll.
evict(s, run) ==
  IF exists(s, run)
  THEN Ret([s EXCEPT !.wm[run] = None], RunOf(s, run).buffered_resp)
  ELSE Ret(s, None)

are_outstanding_evictions(s) ==
  \E r \in Runs : exists(s, r) /\ IsSome(RunOf(s, r).activation)
                  /\ has_eviction(Unwrap(RunOf(s, r).activation))

\* -------------------------------------------- PendingActivations (4.3)
PendingActInfo(run, needs_eviction) == [run_id |-> run, needs_eviction |-> needs_eviction]

has_pending(s, run) == \E i \in 1..Len(s.pa) : s.pa[i].run_id = run
is_some_eviction(s) == \E i \in 1..Len(s.pa) : IsSome(s.pa[i].needs_eviction)

notify_needs_activation(s, run) ==
  IF has_pending(s, run) THEN s
  ELSE [s EXCEPT !.pa = Append(@, PendingActInfo(run, None))]

notify_needs_eviction(s, run, reason) ==
  IF has_pending(s, run)
  THEN [s EXCEPT !.pa = [i \in 1..Len(@) |->
          IF @[i].run_id = run THEN PendingActInfo(run, Some(reason)) ELSE @[i]]]
  ELSE [s EXCEPT !.pa = Append(@, PendingActInfo(run, Some(reason)))]

\* Index of the first entry whose run is in matching (the run ids that satisfy
\* the caller's predicate), 0 if none.
FirstMatching(q, matching) ==
  LET idx == {i \in 1..Len(q) : q[i].run_id \in matching} IN
  IF idx = {} THEN 0 ELSE CHOOSE i \in idx : \A j \in idx : i <= j

pop_first_matching(s, matching) ==
  LET i == FirstMatching(s.pa, matching) IN
  IF i = 0 THEN Ret(s, None)
  ELSE Ret([s EXCEPT !.pa = SeqRemoveAt(@, i)], Some(s.pa[i]))

remove_all_with_run_id(s, run) ==
  LET Keep(e) == e.run_id /= run IN [s EXCEPT !.pa = SelectSeq(@, Keep)]

\* -------------------------------------------- WorkflowCacheManager (4.2)
\* capacity of the sticky cache
CacheCap == 1

cache_touch(s, run) ==
  LET Keep(r) == r /= run IN
  IF InSeq(run, s.cache) THEN [s EXCEPT !.cache = Append(SelectSeq(@, Keep), run)] ELSE s

\* As cache_insert, but a full cache takes the run without giving one up.
cache_insert_keeps_all(s, run) ==
  IF ~s.sticky THEN Ret(s, Some(run))
  ELSE IF InSeq(run, s.cache) THEN Ret(cache_touch(s, run), None)
  ELSE Ret([s EXCEPT !.cache = Append(@, run)], None)

cache_insert(s, run) ==
  IF ~s.sticky THEN Ret(s, Some(run))
  ELSE IF InSeq(run, s.cache) THEN Ret(cache_touch(s, run), None)
  ELSE IF Len(s.cache) >= CacheCap
       THEN IF CacheCap = 0 THEN Ret(s, Some(run))
            ELSE Ret([s EXCEPT !.cache = Append(Tail(@), run)], Some(Head(s.cache)))
       ELSE Ret([s EXCEPT !.cache = Append(@, run)], None)

cache_remove(s, run) ==
  LET Keep(r) == r /= run IN [s EXCEPT !.cache = SelectSeq(@, Keep)]

\* ---------------------------------------------- WorkflowTaskManager
Pulse(s, kind) == [s EXCEPT !.notify = Append(@, kind)]
Panic(s, what) == [s EXCEPT !.panics = @ \cup {what}]

make_buffered_poll_ready(s, buffd) == [s EXCEPT !.ready = Append(@, buffd)]

activation_has_only_eviction(s, run) ==
  IsSome(get_activation(s, run)) /\ has_only_eviction(Unwrap(get_activation(s, run)))

activation_has_eviction(s, run) ==
  IsSome(get_activation(s, run)) /\ has_eviction(Unwrap(get_activation(s, run)))

needs_activation(s, run) == Pulse(notify_needs_activation(s, run), "notify_waiters")

EvictionRequested(attempt) == [result |-> "EvictionRequested", attempt |-> attempt]
EvictionAlreadyRequested(attempt) == [result |-> "EvictionAlreadyRequested", attempt |-> attempt]
NotFound == [result |-> "NotFound", attempt |-> None]

AttemptOf(s, run) ==
  IF IsSome(get_task(s, run)) THEN Some(Unwrap(get_task(s, run)).attempt) ELSE None

\* As request_eviction, but without the test that the run is known.
request_eviction_any_run(s, run, reason) ==
  IF ~activation_has_eviction(s, run)
  THEN Ret(Pulse(notify_needs_eviction(s, run, reason), "notify_waiters"),
           EvictionRequested(AttemptOf(s, run)))
  ELSE Ret(s, EvictionAlreadyRequested(AttemptOf(s, run)))

\* As request_eviction, but without the test of the outstanding activation.
request_eviction_always(s, run, reason) ==
  IF exists(s, run)
  THEN Ret(Pulse(notify_needs_eviction(s, run, reason), "notify_waiters"),
           EvictionRequested(AttemptOf(s, run)))
  ELSE Ret(s, NotFound)

\* As request_eviction, but a run the manager does not hold gets a notice as well.
request_eviction_unknown_queued(s, run, reason) ==
  IF exists(s, run) /\ activation_has_eviction(s, run)
  THEN Ret(s, EvictionAlreadyRequested(AttemptOf(s, run)))
  ELSE Ret(Pulse(notify_needs_eviction(s, run, reason), "notify_waiters"), NotFound)

request_eviction(s, run, reason) ==
  IF exists(s, run)
  THEN IF ~activation_has_eviction(s, run)
       THEN Ret(Pulse(notify_needs_eviction(s, run, reason), "notify_waiters"),
                EvictionRequested(AttemptOf(s, run)))
       ELSE Ret(s, EvictionAlreadyRequested(AttemptOf(s, run)))
  ELSE Ret(s, NotFound)

\* As evict_run, but the buffered poll of the evicted run is dropped.
evict_run_drops_buffered(s, run) ==
  remove_all_with_run_id(evict(cache_remove(s, run), run).s, run)

evict_run(s, run) ==
  LET s1 == cache_remove(s, run)
      ev == evict(s1, run)
      s2 == remove_all_with_run_id(ev.s, run)
  IN IF IsSome(ev.ret) THEN make_buffered_poll_ready(s2, Unwrap(ev.ret)) ELSE s2

\* ret: "ok" | "missing"; the panic branch is recorded in panics.
insert_outstanding_activation(s, act) ==
  LET act_type == IF is_legacy_query(act) THEN LegacyQuery
                  ELSE Normal(has_evict_job(act), Len(act.jobs))
      ins == insert_activation(s, act.run_id, act_type)
  IN IF ~ins.ret.ok THEN Ret(ins.s, "missing")
     ELSE IF IsSome(ins.ret.previous)
          THEN Ret(Panic(ins.s, "duplicate outstanding activation"), "ok")
          ELSE Ret(ins.s, "ok")

\* As NoActivationRuns, but without the test for an outstanding activation.
NoActivationRuns_any(s) == Runs

\* The runs the pop of next_pending_activation may return.
NoActivationRuns(s) == {r \in Runs : ~IsSome(get_activation(s, r))}

\* machines.get_wf_activation: the jobs the machines hold, which it drains.
get_wf_activation(s, run) == WorkflowActivation(run, JobsOf(RunOf(s, run).mjobs))

\* As next_pending_activation, but the pending-activation queue is served before
\* pending_queries.
next_pending_activation_queries_last(s) ==
  LET p == pop_first_matching(s, NoActivationRuns(s))
      run == Unwrap(p.ret).run_id
      act == IF get_wf_activation(p.s, run).jobs = <<>>
                /\ IsSome(Unwrap(p.ret).needs_eviction)
             THEN WorkflowActivation(run, <<"evict">>) ELSE get_wf_activation(p.s, run)
  IN IF IsSome(p.ret) /\ exists(p.s, run) /\ act.jobs /= <<>>
     THEN Ret(cache_touch(insert_outstanding_activation(SetRun(p.s, run, "mjobs", 0), act).s,
                          run), Some(act))
     ELSE IF s.pq /= <<>> THEN Ret([s EXCEPT !.pq = Tail(@)], Some(Head(s.pq)))
     ELSE Ret(s, None)

\* As next_pending_activation, but the eviction job of an entry that needs an
\* eviction is appended to the jobs the machines hold.
next_pending_activation_evict_with_jobs(s) ==
  IF s.pq /= <<>> THEN Ret([s EXCEPT !.pq = Tail(@)], Some(Head(s.pq)))
  ELSE
    LET p == pop_first_matching(s, NoActivationRuns(s)) IN
    IF ~IsSome(p.ret) \/ ~exists(p.s, Unwrap(p.ret).run_id) THEN Ret(s, None)
    ELSE
      LET pending_info == Unwrap(p.ret)
          run == pending_info.run_id
          snap == get_wf_activation(p.s, run)
          s1 == SetRun(p.s, run, "mjobs", 0)
          act == IF IsSome(pending_info.needs_eviction)
                 THEN WorkflowActivation(run, Append(snap.jobs, "evict")) ELSE snap
      IN IF act.jobs /= <<>>
         THEN Ret(cache_touch(insert_outstanding_activation(s1, act).s, run), Some(act))
         ELSE Ret(s1, None)

\* What one call of next_pending_activation comes to: it returns ret
\* (again = FALSE), or it goes on as next_pending_activation on s (again = TRUE).
NpaReturn(s, v) == [s |-> s, ret |-> v, again |-> FALSE]
NpaRecurse(s) == [s |-> s, ret |-> None, again |-> TRUE]

\* The body of next_pending_activation, up to its return or its recursive call.
next_pending_activation_call(s) ==
  IF s.pq /= <<>> THEN NpaReturn([s EXCEPT !.pq = Tail(@)], Some(Head(s.pq)))
  ELSE
    LET p == pop_first_matching(s, NoActivationRuns(s)) IN
    IF ~IsSome(p.ret) THEN NpaReturn(s, None)
    ELSE
      LET pending_info == Unwrap(p.ret)
          run == pending_info.run_id
      IN
      IF ~exists(p.s, run)
      THEN NpaRecurse(request_eviction(p.s, run, "Fatal").s)
      ELSE
        LET snap == get_wf_activation(p.s, run)
            s1 == SetRun(p.s, run, "mjobs", 0)
            act == IF snap.jobs = <<>> /\ IsSome(pending_info.needs_eviction)
                   THEN WorkflowActivation(run, <<"evict">>) ELSE snap
        IN
        IF act.jobs /= <<>>
        THEN LET ins == insert_outstanding_activation(s1, act) IN
             IF ins.ret = "ok" THEN NpaReturn(cache_touch(ins.s, run), Some(act))
             ELSE NpaRecurse(request_eviction(ins.s, run, "Fatal").s)
        ELSE NpaReturn(s1, None)

RECURSIVE next_pending_activation(_)
next_pending_activation(s) ==
  LET call == next_pending_activation_call(s) IN
  IF call.again THEN next_pending_activation(call.s) ELSE Ret(call.s, call.ret)

next_buffered_poll(s) ==
  IF s.ready = <<>> THEN Ret(s, None)
  ELSE Ret([s EXCEPT !.ready = Tail(@)], Some(Head(s.ready)))

\* WorkflowCacheManager::wait_for_capacity (4.2): None (FALSE) when the cache has
\* room or the predicate holds, else a future (TRUE).
cache_wait_for_capacity(s, predicate) == ~(Len(s.cache) < CacheCap \/ predicate)

\* As wait_for_cache_capacity, but the cache manager is asked whether or not an
\* eviction is pending.
wait_for_cache_capacity_full_cache_waits(s) ==
  LET are_no_pending_evictions == ~is_some_eviction(s) /\ ~are_outstanding_evictions(s)
  IN cache_wait_for_capacity(s, FALSE)

\* Lines 208-225: TRUE when it returns a future, which resolves when the cache
\* has room or no eviction is pending or outstanding.
wait_for_cache_capacity(s) ==
  LET are_no_pending_evictions == ~is_some_eviction(s) /\ ~are_outstanding_evictions(s)
  IN IF ~are_no_pending_evictions
     THEN cache_wait_for_capacity(s, are_no_pending_evictions)
     ELSE FALSE

\* ret: None when the poll was buffered or parked, Some(poll) when it is to be applied.
add_new_run_to_cache(s, poll_resp) ==
  LET ins == cache_insert(s, poll_resp.run_id) IN
  IF IsSome(ins.ret)
  THEN LET s1 == request_eviction(ins.s, Unwrap(ins.ret), "CacheFull").s
           b == buffer_resp_if_outstanding_work(s1, poll_resp)
       IN IF IsSome(b.ret) THEN Ret(make_buffered_poll_ready(b.s, Unwrap(b.ret)), None)
          ELSE Ret(b.s, None)
  ELSE Ret(ins.s, Some(poll_resp))

\* ---- apply_new_poll_resp, cut at the await of create_or_update
TaskBuffered == [outcome |-> "TaskBuffered"]
Autocomplete == [outcome |-> "Autocomplete"]
LocalActsOutstanding == [outcome |-> "LocalActsOutstanding"]
IssueActivation(act) == [outcome |-> "IssueActivation", act |-> act]
Evict(why) == [outcome |-> "Evict", reason |-> why]

\* As apply_new_poll_resp_begin, but a poll is buffered only behind an
\* outstanding task, not behind an activation alone.
apply_new_poll_resp_begin_task_only(s, work) ==
  IF IsSome(get_task(s, work.run_id))
  THEN Ret(buffer_resp_if_outstanding_work(s, work).s, TaskBuffered)
  ELSE
    LET poll_resp_is_incremental == work.incremental
        fetch_from_start == ~exists(s, work.run_id) /\ poll_resp_is_incremental
        did_miss_cache == ~poll_resp_is_incremental \/ fetch_from_start
    IN Ret(s, [outcome |-> "updating", work |-> work,
               did_miss_cache |-> did_miss_cache,
               fetch_from_start |-> fetch_from_start])

\* As apply_new_poll_resp_begin, but without the buffer offer.
apply_new_poll_resp_begin_no_buffer(s, work) ==
  LET poll_resp_is_incremental == work.incremental
      fetch_from_start == ~exists(s, work.run_id) /\ poll_resp_is_incremental
      did_miss_cache == ~poll_resp_is_incremental \/ fetch_from_start
  IN Ret(s, [outcome |-> "updating", work |-> work,
             did_miss_cache |-> did_miss_cache,
             fetch_from_start |-> fetch_from_start])

\* As apply_new_poll_resp_begin, but only a response with partial history for an
\* absent run counts as a cache miss.
apply_new_poll_resp_begin_miss_is_fetch(s, work) ==
  LET b == buffer_resp_if_outstanding_work(s, work) IN
  IF ~IsSome(b.ret) THEN Ret(b.s, TaskBuffered)
  ELSE
    LET poll_resp_is_incremental == work.incremental
        fetch_from_start == ~exists(b.s, work.run_id) /\ poll_resp_is_incremental
        did_miss_cache == fetch_from_start
    IN Ret(b.s, [outcome |-> "updating", work |-> work,
                 did_miss_cache |-> did_miss_cache,
                 fetch_from_start |-> fetch_from_start])

\* Up to the await: the buffer offer, and instantiate_or_update_workflow's
\* cache-miss detection. ret.outcome = "updating" when the await is reached.
apply_new_poll_resp_begin(s, work) ==
  LET b == buffer_resp_if_outstanding_work(s, work) IN
  IF ~IsSome(b.ret) THEN Ret(b.s, TaskBuffered)
  ELSE
    LET poll_resp_is_incremental == work.incremental
        fetch_from_start == ~exists(b.s, work.run_id) /\ poll_resp_is_incremental
        did_miss_cache == ~poll_resp_is_incremental \/ fetch_from_start
    IN Ret(b.s, [outcome |-> "updating", work |-> work,
                 did_miss_cache |-> did_miss_cache,
                 fetch_from_start |-> fetch_from_start])

\* create_or_update: creates the run if absent, feeds the history; the machines
\* answer with njobs jobs (all they hold), or with an error (update_ok = FALSE).
create_or_update(s, run, njobs) ==
  LET s1 == IF exists(s, run) THEN s ELSE [s EXCEPT !.wm[run] = Some(NewRun)]
  IN Ret(SetRun(s1, run, "mjobs", 0), WorkflowActivation(run, JobsOf(njobs)))

\* As apply_new_poll_resp_finish, but the legacy query always joins the jobs of
\* the activation.
apply_new_poll_resp_finish_legacy_now(s, loc, update_ok, njobs) ==
  LET work == loc.work
      run == work.run_id
  IN
  IF ~update_ok THEN Ret(s, Evict("WorkflowUpdateError"))
  ELSE
    LET cu == create_or_update(s, run, njobs)
        folded == IF work.query_requests > 0 /\ ~loc.did_miss_cache
                  THEN QueriesOf(work.query_requests) ELSE <<>>
        deferred == IF work.query_requests > 0 /\ loc.did_miss_cache
                    THEN QueriesOf(work.query_requests) ELSE <<>>
        jobs0 == cu.ret.jobs \o folded
    IN
    IF deferred /= <<>> /\ work.legacy_query THEN Ret(cu.s, Evict("Fatal"))
    ELSE
      LET jobs == IF work.legacy_query THEN Append(jobs0, LEGACY_QUERY_ID) ELSE jobs0
          pending == deferred
          next_activation == WorkflowActivation(run, jobs)
          iw == insert_wft(cu.s, run, OutstandingTask(work.task_token, work.attempt, pending))
      IN
      IF jobs = <<>>
      THEN IF RunOf(iw.s, run).las > 0 THEN Ret(iw.s, LocalActsOutstanding)
           ELSE Ret(iw.s, Autocomplete)
      ELSE LET ins == insert_outstanding_activation(iw.s, next_activation) IN
           IF ins.ret = "ok" THEN Ret(ins.s, IssueActivation(next_activation))
           ELSE Ret(ins.s, Evict("Fatal"))

\* As apply_new_poll_resp_finish, but an activation without jobs is completed
\* automatically whatever the outstanding local activities.
apply_new_poll_resp_finish_no_las_check(s, loc, update_ok, njobs) ==
  LET work == loc.work
      run == work.run_id
  IN
  IF ~update_ok THEN Ret(s, Evict("WorkflowUpdateError"))
  ELSE
    LET cu == create_or_update(s, run, njobs)
        folded == IF work.query_requests > 0 /\ ~loc.did_miss_cache
                  THEN QueriesOf(work.query_requests) ELSE <<>>
        deferred == IF work.query_requests > 0 /\ loc.did_miss_cache
                    THEN QueriesOf(work.query_requests) ELSE <<>>
        jobs0 == cu.ret.jobs \o folded
    IN
    IF deferred /= <<>> /\ work.legacy_query THEN Ret(cu.s, Evict("Fatal"))
    ELSE
      LET jobs == IF work.legacy_query /\ jobs0 = <<>> THEN <<LEGACY_QUERY_ID>> ELSE jobs0
          pending == IF work.legacy_query /\ jobs0 /= <<>>
                     THEN Append(deferred, LEGACY_QUERY_ID) ELSE deferred
          next_activation == WorkflowActivation(run, jobs)
          iw == insert_wft(cu.s, run, OutstandingTask(work.task_token, work.attempt, pending))
      IN
      IF jobs = <<>>
      THEN Ret(iw.s, Autocomplete)
      ELSE LET ins == insert_outstanding_activation(iw.s, next_activation) IN
           IF ins.ret = "ok" THEN Ret(ins.s, IssueActivation(next_activation))
           ELSE Ret(ins.s, Evict("Fatal"))

\* From the await to the end.
apply_new_poll_resp_finish(s, loc, update_ok, njobs) ==
  LET work == loc.work
      run == work.run_id
  IN
  IF ~update_ok THEN Ret(s, Evict("WorkflowUpdateError"))
  ELSE
    LET cu == create_or_update(s, run, njobs)
        folded == IF work.query_requests > 0 /\ ~loc.did_miss_cache
                  THEN QueriesOf(work.query_requests) ELSE <<>>
        deferred == IF work.query_requests > 0 /\ loc.did_miss_cache
                    THEN QueriesOf(work.query_requests) ELSE <<>>
        jobs0 == cu.ret.jobs \o folded
    IN
    IF deferred /= <<>> /\ work.legacy_query THEN Ret(cu.s, Evict("Fatal"))
    ELSE
      LET jobs == IF work.legacy_query /\ jobs0 = <<>> THEN <<LEGACY_QUERY_ID>> ELSE jobs0
          pending == IF work.legacy_query /\ jobs0 /= <<>>
                     THEN Append(deferred, LEGACY_QUERY_ID) ELSE deferred
          next_activation == WorkflowActivation(run, jobs)
          iw == insert_wft(cu.s, run, OutstandingTask(work.task_token, work.attempt, pending))
      IN
      IF jobs = <<>>
      THEN IF RunOf(iw.s, run).las > 0 THEN Ret(iw.s, LocalActsOutstanding)
           ELSE Ret(iw.s, Autocomplete)
      ELSE LET ins == insert_outstanding_activation(iw.s, next_activation) IN
           IF ins.ret = "ok" THEN Ret(ins.s, IssueActivation(next_activation))
           ELSE Ret(ins.s, Evict("Fatal"))

\* ---- notify_of_local_result: ret FALSE = Err (run missing)
notify_of_local_result(s, run, result_was_important) ==
  IF ~exists(s, run) THEN Ret(s, FALSE)
  ELSE
    LET r == RunOf(s, run)
        s1 == SetRun(s, run, "las", IF r.las > 0 THEN r.las - 1 ELSE 0)
        s2 == IF result_was_important
              THEN needs_activation(SetRun(s1, run, "mjobs", IF r.mjobs = 0 THEN 1 ELSE r.mjobs),
                                    run)
              ELSE s1
    IN Ret(s2, TRUE)

\* ---- successful_activation, cut at the await of the machines' access and at
\* ---- the wait for local activities
OkNone == [result |-> "Ok", action |-> None]
OkSome(a) == [result |-> "Ok", action |-> Some(a)]
ErrFatal == [result |-> "Err", action |-> None]
RespondLegacyQuery(tok) == [kind |-> "RespondLegacyQuery", task_token |-> tok]
WftComplete(tok, force_new_wft) ==
  [kind |-> "WftComplete", task_token |-> tok, force_new_wft |-> force_new_wft]

IsQueryResponse(c) == c \in {"query", LEGACY_QUERY_ID}

\* As successful_activation_begin, but a reply that is only the response to the
\* legacy query goes to the machines like any other reply.
successful_activation_begin_legacy_to_machines(s, run, commands) ==
  LET activation_was_only_eviction == activation_has_only_eviction(s, run)
      entry == get_task(s, run)
      IsQr(c) == IsQueryResponse(c)
  IN
  IF ~IsSome(entry) THEN Ret(s, [done |-> TRUE, ret |-> OkNone])
  ELSE IF InSeq(LEGACY_QUERY_ID, commands) /\ commands /= <<LEGACY_QUERY_ID>>
  THEN Ret(s, [done |-> TRUE, ret |-> ErrFatal])
  ELSE Ret(s, [done |-> FALSE,
               task_token |-> Unwrap(entry).task_token,
               has_pending_query |-> Unwrap(entry).pending_queries /= <<>>,
               activation_was_only_eviction |-> activation_was_only_eviction,
               activation_was_eviction |-> activation_has_eviction(s, run),
               has_query_responses |-> SelectSeq(commands, IsQr) /= <<>>])

\* Lines 496-554. ret.done says whether the call has returned.
successful_activation_begin(s, run, commands) ==
  LET activation_was_only_eviction == activation_has_only_eviction(s, run)
      entry == get_task(s, run)
      IsQr(c) == IsQueryResponse(c)
  IN
  IF ~IsSome(entry) THEN Ret(s, [done |-> TRUE, ret |-> OkNone])
  ELSE IF commands = <<LEGACY_QUERY_ID>>
  THEN Ret(s, [done |-> TRUE, ret |-> OkSome(RespondLegacyQuery(Unwrap(entry).task_token))])
  ELSE IF InSeq(LEGACY_QUERY_ID, commands) THEN Ret(s, [done |-> TRUE, ret |-> ErrFatal])
  ELSE Ret(s, [done |-> FALSE,
               task_token |-> Unwrap(entry).task_token,
               has_pending_query |-> Unwrap(entry).pending_queries /= <<>>,
               activation_was_only_eviction |-> activation_was_only_eviction,
               activation_was_eviction |-> activation_has_eviction(s, run),
               has_query_responses |-> SelectSeq(commands, IsQr) /= <<>>])

\* Lines 555-599: the machines take the commands (m is what they answer), then
\* the local-activity sink. ret = FALSE is an Err return.
successful_activation_update(s, run, loc, m) ==
  IF ~exists(s, run) \/ ~m.ok THEN Ret(s, FALSE)
  ELSE
    LET r == RunOf(s, run)
        are_pending == ~loc.activation_was_eviction /\ m.pend > 0
        s1 == SetRun(SetRun(s, run, "mjobs", IF are_pending THEN m.pend ELSE r.mjobs),
                     run, "las", r.las + m.new_las)
        s2 == IF are_pending THEN needs_activation(s1, run) ELSE s1
    IN IF m.immediate THEN notify_of_local_result(s2, run, m.important) ELSE Ret(s2, TRUE)

\* As held_back, without no_commands_and_evicting.
held_back_no_evicting(loc, m) ==
  m.replaying \/ (loc.has_pending_query /\ ~loc.has_query_responses)

\* Lines 610-632: the part of should_respond that does not depend on the
\* pending-activation queue: replaying, is_query_playback, no_commands_and_evicting.
held_back(loc, m) ==
  LET is_query_playback == loc.has_pending_query /\ ~loc.has_query_responses
      no_commands_and_evicting == ~m.server_cmds /\ loc.activation_was_only_eviction
  IN m.replaying \/ is_query_playback \/ no_commands_and_evicting

\* As successful_activation_finish, but without the look at the pending-activation
\* queue.
successful_activation_finish_no_has_pending(s, run, loc, must_heartbeat) ==
  LET to_be_sent == WftComplete(loc.task_token, must_heartbeat)
      should_respond == ~loc.held_back
  IN IF should_respond \/ loc.has_query_responses THEN OkSome(to_be_sent) ELSE OkNone

\* Lines 601-639, from the return of wait_for_local_acts_or_heartbeat.
successful_activation_finish(s, run, loc, must_heartbeat) ==
  LET to_be_sent == WftComplete(loc.task_token, must_heartbeat)
      should_respond == ~(has_pending(s, run) \/ loc.held_back)
  IN IF should_respond \/ loc.has_query_responses THEN OkSome(to_be_sent) ELSE OkNone

\* ---- failed_activation
NoReport == [outcome |-> "NoReport", task_token |-> None]
Report(tt) == [outcome |-> "Report", task_token |-> Some(tt)]
ReportLegacyQueryFailure(tt) == [outcome |-> "ReportLegacyQueryFailure", task_token |-> Some(tt)]

\* As failed_activation, but the failure is reported whatever the attempt.
failed_activation_any_attempt(s, run, reason) ==
  IF ~IsSome(get_task(s, run)) THEN Ret(s, NoReport)
  ELSE
    LET tt == Unwrap(get_task(s, run)).task_token IN
    IF get_activation(s, run) = Some(LegacyQuery) THEN Ret(s, ReportLegacyQueryFailure(tt))
    ELSE Ret(request_eviction(s, run, reason).s, Report(tt))

failed_activation(s, run, reason) ==
  IF ~IsSome(get_task(s, run)) THEN Ret(s, NoReport)
  ELSE
    LET tt == Unwrap(get_task(s, run)).task_token IN
    IF get_activation(s, run) = Some(LegacyQuery) THEN Ret(s, ReportLegacyQueryFailure(tt))
    ELSE
      LET re == request_eviction(s, run, reason)
          should_report == IsSome(re.ret.attempt) /\ Unwrap(re.ret.attempt) <= 1
      IN IF should_report THEN Ret(re.s, Report(tt)) ELSE Ret(re.s, NoReport)

\* ---- after_wft_report
on_activation_done(s, run) == Pulse(delete_activation(s, run), "notify_one")

\* As after_wft_report_no_pending, but only the first of the task's queries is
\* turned into an activation.
after_wft_report_no_pending_first_query(s, run) ==
  LET ot == get_task(s, run) IN
  IF ~exists(s, run) THEN Ret(Panic(s, "Machine must exist"), [returned |-> TRUE])
  ELSE IF IsSome(ot) /\ Unwrap(ot).pending_queries /= <<>>
  THEN LET qs == Unwrap(ot).pending_queries
           s1 == SetRun(s, run, "wft", Some([Unwrap(ot) EXCEPT !.pending_queries = <<>>]))
           s2 == [s1 EXCEPT !.pq = Append(@, create_query_activation(run, qs[1]))]
       IN Ret(Pulse(s2, "notify_waiters"), [returned |-> TRUE])
  ELSE LET ins == cache_insert(s, run)
           s1 == IF IsSome(ins.ret)
                 THEN request_eviction(ins.s, Unwrap(ins.ret), "CacheFull").s ELSE ins.s
           tb == take_buffered_poll(s1, run)
           s2 == IF IsSome(tb.ret) THEN make_buffered_poll_ready(tb.s, Unwrap(tb.ret))
                 ELSE tb.s
       IN Ret(s2, [returned |-> FALSE])

\* The block of lines 793-826; ret.returned = TRUE is the early return of line 807.
after_wft_report_no_pending(s, run) ==
  LET ot == get_task(s, run) IN
  IF ~exists(s, run) THEN Ret(Panic(s, "Machine must exist"), [returned |-> TRUE])
  ELSE IF IsSome(ot) /\ Unwrap(ot).pending_queries /= <<>>
  THEN LET qs == Unwrap(ot).pending_queries
           s1 == SetRun(s, run, "wft", Some([Unwrap(ot) EXCEPT !.pending_queries = <<>>]))
           s2 == [s1 EXCEPT !.pq = @ \o [i \in 1..Len(qs) |->
                                           create_query_activation(run, qs[i])]]
       IN Ret(Pulse(s2, "notify_waiters"), [returned |-> TRUE])
  ELSE LET ins == cache_insert(s, run)
           s1 == IF IsSome(ins.ret)
                 THEN request_eviction(ins.s, Unwrap(ins.ret), "CacheFull").s ELSE ins.s
           tb == take_buffered_poll(s1, run)
           s2 == IF IsSome(tb.ret) THEN make_buffered_poll_ready(tb.s, Unwrap(tb.ret))
                 ELSE tb.s
       IN Ret(s2, [returned |-> FALSE])

after_wft_report(s, run, reported_wft_to_server, saw_final) ==
  LET evicting == activation_has_eviction(s, run)
      s1 == IF evicting THEN evict_run(s, run) ELSE s
      just_evicted == evicting
      blk == IF ~has_pending(s1, run) /\ ~just_evicted
             THEN after_wft_report_no_pending(s1, run)
             ELSE Ret(s1, [returned |-> FALSE])
  IN IF blk.ret.returned THEN Ret(blk.s, FALSE)
     ELSE LET cw == complete_wft(blk.s, run, reported_wft_to_server, saw_final)
          IN Ret(on_activation_done(cw.s, run), IsSome(cw.ret))

\* =================================================== the workflow side
\* The worker stops at its first panic.
Running == panics = {}

Slots == PolledRuns \cup {"auto"}
Idle == [pc |-> "idle"]
\* The poll loop past a next_pending_activation that returned nothing: it goes on
\* to the buffered polls and to the server, or starts over when it is notified of
\* a pending activation.
Drained == [pc |-> "drained"]
AtLoopTop == poller.pc \in {"idle", "drained"}

\* The poll loop suspended on the future of wait_for_cache_capacity; pulsed says that
\* the cache manager's notifier was pulsed (a remove) since it last looked.
CacheWait(pulsed) == [pc |-> "cache_wait", pulsed |-> pulsed]
\* WorkflowCacheManager::remove wakes the capacity waiters.
CacheRemovePulse(p) == IF p.pc = "cache_wait" THEN CacheWait(TRUE) ELSE p

\* What the host remembers of an activation it was handed: the queries it is to
\* answer.
KindOf(act) == IF act.jobs = <<LEGACY_QUERY_ID>> THEN "legacy"
               ELSE IF InSeq("query", act.jobs) THEN "query" ELSE "jobs"

\* What the language host may send back as the commands of a completion of an
\* activation: it answers the queries of the activation, and may add commands
\* (to a legacy query too, which is a violation of its protocol).
HostReplies(kind) ==
  CASE kind = "legacy" -> {<<LEGACY_QUERY_ID>>, <<"cmd", LEGACY_QUERY_ID>>}
    [] kind = "query" -> {<<"query">>, <<"cmd", "query">>}
    [] OTHER -> {<<>>, <<"cmd">>}

HostCommands == UNION {HostReplies(k) : k \in {"legacy", "query", "jobs"}}

\* What the machines may answer when they take the commands of a completion:
\* pend jobs for a next activation, whether they produced commands for the
\* server, whether they are still replaying (they go on applying history until
\* there are jobs or the history is used up, so replaying comes with jobs), the
\* local activities they queued, and what the sink resolved at once.
MachineAnswers(las) ==
  {m \in [ok : {TRUE}, pend : 0..MaxJobs, server_cmds : BOOLEAN, replaying : BOOLEAN,
          new_las : 0..(MaxLA - las), immediate : {FALSE}, important : {FALSE}] :
     m.replaying => m.pend > 0}
  \cup [ok : {TRUE}, pend : {0}, server_cmds : {TRUE}, replaying : {FALSE},
        new_las : {1} \cap 0..(MaxLA - las), immediate : {TRUE}, important : BOOLEAN]
  \cup [ok : {FALSE}, pend : {0}, server_cmds : {FALSE}, replaying : {FALSE},
        new_las : {0}, immediate : {FALSE}, important : {FALSE}]

Log(op, run) == [op |-> op, run |-> run]

\* An activation leaves for the host.
Issue(act) ==
  /\ Len(hostHas[act.run_id]) < MaxHost
  /\ hostHas' = [hostHas EXCEPT ![act.run_id] = Append(@, KindOf(act))]
  /\ sinceReport' = [sinceReport EXCEPT ![act.run_id] = FALSE]

WtmInit ==
  /\ workflow_machines = [r \in Runs |-> None]
  /\ pending_activations = <<>>
  /\ pending_queries = <<>>
  /\ ready_buffered_wft = <<>>
  /\ cache_manager = <<>>
  /\ sticky \in BOOLEAN
  /\ panics = {}
  /\ poller = Idle
  /\ completion = [c \in Slots |-> Idle]
  /\ hostHas = [r \in Runs |-> <<>>]
  /\ nextTok = 1
  /\ arrivedBusy = {}
  /\ parked = {}
  /\ lastOp = Log("init", "")
  /\ sinceReport = [r \in Runs |-> TRUE]

\* The poll loop goes on to the buffered polls and to the server only past
\* wait_for_cache_capacity, which it calls when the cache is sticky.
CacheHasCapacity == sticky => ~wait_for_cache_capacity(Cur)

\* The server hands out a task for a run only when no earlier response for that
\* run is still waiting to be applied (its promise of exclusivity).
PollInFlight(run) ==
  \/ IsSome(workflow_machines[run]) /\ IsSome(Unwrap(workflow_machines[run]).buffered_resp)
  \/ \E i \in 1..Len(ready_buffered_wft) : ready_buffered_wft[i].run_id = run

\* The record of a completion whose successful_activation has returned.
Returned(run, ret) ==
  [pc |-> "report", run |-> run, result |-> ret.result, sent |-> IsSome(ret.action)]

\* successful_activation up to the await of the machines' access, for slot c.
BeginCompletion(s, c, run, commands) ==
  LET b == successful_activation_begin(s, run, commands) IN
  /\ Commit(b.s)
  /\ completion' = [completion EXCEPT ![c] =
        IF b.ret.done THEN Returned(run, b.ret.ret)
        ELSE [pc |-> "update", run |-> run,
              loc |-> [f \in DOMAIN b.ret \ {"done"} |-> b.ret[f]]]]
  /\ lastOp' = IF b.ret.done THEN Log("successful_activation", run)
               ELSE Log("successful_activation_begin", run)

\* The poll loop goes on with a poll response it is to apply.
BeginApply(s, work, op) ==
  LET b == apply_new_poll_resp_begin(s, work) IN
  /\ Commit(b.s)
  /\ poller' = IF b.ret.outcome = "updating" THEN [pc |-> "updating", loc |-> b.ret] ELSE Idle
  /\ lastOp' = Log(op, work.run_id)
  /\ UNCHANGED <<completion, hostHas, sinceReport>>

\* The poll responses the server sends, but for run id and task token:
\* {attempt, first event id > 1 or no event, number of query_requests, legacy_query}.
PollShape(attempt, incremental, nq, lq) ==
  [attempt |-> attempt, incremental |-> incremental, query_requests |-> nq,
   legacy_query |-> lq]
PollShapes ==
  {PollShape(1, TRUE, 0, FALSE), PollShape(2, FALSE, 0, FALSE),
   PollShape(1, TRUE, 0, TRUE), PollShape(1, TRUE, MaxQueries, FALSE),
   PollShape(1, FALSE, 1, TRUE)}

\* The poll loop: a poll response arrives, add_new_run_to_cache, then
\* apply_new_poll_resp up to its await.
PollServer(run, shape) ==
  /\ Running
  /\ poller.pc = "drained"
  /\ CacheHasCapacity
  /\ ~PollInFlight(run)
  /\ nextTok' = nextTok + 1
  /\ arrivedBusy' = IF IsSome(get_task(Cur, run)) THEN arrivedBusy \cup {nextTok}
                     ELSE arrivedBusy
  /\ LET maybe_evicted == cache_insert(Cur, run).ret IN
     parked' = IF IsSome(maybe_evicted) /\ Unwrap(maybe_evicted) /= run
               THEN parked \cup {[task_token |-> nextTok, evicted |-> Unwrap(maybe_evicted)]}
               ELSE parked
  /\ LET work == PollResp(run, nextTok, shape.attempt, shape.incremental,
                              shape.query_requests, shape.legacy_query)
         a == add_new_run_to_cache(Cur, work)
     IN IF IsSome(a.ret) THEN BeginApply(a.s, work, "poll")
        ELSE /\ Commit(a.s)
             /\ lastOp' = Log("add_new_run_to_cache", run)
             /\ poller' = Idle
             /\ UNCHANGED <<completion, hostHas, sinceReport>>

\* The poll loop: next_buffered_poll, then apply_new_poll_resp up to its await.
ApplyBuffered ==
  /\ Running
  /\ poller.pc = "drained"
  /\ CacheHasCapacity
  /\ LET n == next_buffered_poll(Cur) IN
     /\ IsSome(n.ret)
     /\ BeginApply(n.s, Unwrap(n.ret), "next_buffered_poll")
  /\ UNCHANGED server

\* apply_new_poll_resp from its await on, and what the poll loop does with the
\* outcome: issue the activation, complete by itself, or request the eviction.
ApplyFinish(update_ok, njobs) ==
  /\ Running
  /\ poller.pc = "updating"
  /\ LET run == poller.loc.work.run_id
         held == IF IsSome(workflow_machines[run])
                 THEN Unwrap(workflow_machines[run]).mjobs ELSE 0
         f == apply_new_poll_resp_finish(Cur, poller.loc, update_ok, njobs)
         out == f.ret.outcome
     IN
     /\ njobs >= held
     /\ out /= "Autocomplete" => lastOp' = Log("apply_new_poll_resp", run)
     /\ CASE out = "IssueActivation" ->
               /\ Issue(f.ret.act) /\ Commit(f.s) /\ poller' = Idle /\ UNCHANGED completion
          [] out = "Autocomplete" ->
               /\ BeginCompletion(f.s, "auto", run, <<>>)
               /\ poller' = [pc |-> "auto"]
               /\ UNCHANGED <<hostHas, sinceReport>>
          [] out = "Evict" ->
               /\ Commit(request_eviction(f.s, run, f.ret.reason).s)
               /\ poller' = Idle
               /\ UNCHANGED <<completion, hostHas, sinceReport>>
          [] OTHER ->
               /\ Commit(f.s) /\ poller' = Idle
               /\ UNCHANGED <<completion, hostHas, sinceReport>>
  /\ UNCHANGED server

\* The poll loop: next_pending_activation; what it returns goes to the host.
NextPendingActivation ==
  /\ Running
  /\ AtLoopTop
  /\ LET n == next_pending_activation(Cur) IN
     /\ Commit(n.s)
     /\ lastOp' = Log("next_pending_activation", IF IsSome(n.ret) THEN Unwrap(n.ret).run_id ELSE "")
     /\ poller' = IF IsSome(n.ret) THEN Idle ELSE Drained
     /\ IF IsSome(n.ret) THEN Issue(Unwrap(n.ret))
        ELSE UNCHANGED <<hostHas, sinceReport>>
  /\ UNCHANGED <<completion, server>>

\* The host replies to an activation of the run with a successful completion:
\* successful_activation up to the await of the machines' access.
HostReplySuccess(run, commands) ==
  /\ Running
  /\ completion[run].pc = "idle"
  /\ \E i \in 1..Len(hostHas[run]) :
        /\ commands \in HostReplies(hostHas[run][i])
        /\ hostHas' = [hostHas EXCEPT ![run] = SeqRemoveAt(@, i)]
  /\ BeginCompletion(Cur, run, run, commands)
  /\ UNCHANGED <<poller, server, sinceReport>>

\* successful_activation: the machines take the commands; with no local
\* activity outstanding the wait returns at once and the call returns.
SuccessfulActivationUpdate(c, m) ==
  /\ Running
  /\ completion[c].pc = "update"
  /\ LET run == completion[c].run
         loc == completion[c].loc
         las == IF IsSome(workflow_machines[run])
                THEN Unwrap(workflow_machines[run]).las ELSE MaxLA
         u == successful_activation_update(Cur, run, loc, m)
         loc2 == [task_token |-> loc.task_token,
                  has_query_responses |-> loc.has_query_responses,
                  held_back |-> held_back(loc, m)]
     IN
     /\ m \in MachineAnswers(las)
     /\ Commit(u.s)
     /\ IF ~u.ret
        THEN /\ completion' = [completion EXCEPT ![c] = Returned(run, ErrFatal)]
             /\ lastOp' = Log("successful_activation", run)
        ELSE IF RunOf(u.s, run).las = 0
        THEN LET ret == successful_activation_finish(u.s, run, loc2, FALSE) IN
             /\ completion' = [completion EXCEPT ![c] = Returned(run, ret)]
             /\ lastOp' = Log("successful_activation", run)
        ELSE /\ completion' = [completion EXCEPT ![c] =
                                 [pc |-> "wait", run |-> run, loc |-> loc2]]
             /\ lastOp' = Log("successful_activation_update", run)
  /\ UNCHANGED <<poller, hostHas, server, sinceReport>>

\* wait_for_local_acts_or_heartbeat wakes: all local activities are resolved, or
\* the heartbeat deadline has passed; successful_activation then returns.
SuccessfulActivationWake(c, deadline_passed) ==
  /\ Running
  /\ completion[c].pc = "wait"
  /\ LET run == completion[c].run
         loc == completion[c].loc
         s == Cur
     IN
     IF ~exists(s, run)
     THEN /\ Commit(Panic(s, "Workflow cannot go missing"))
          /\ completion' = [completion EXCEPT ![c] = Idle]
          /\ lastOp' = Log("successful_activation", run)
     ELSE /\ RunOf(s, run).las = 0 \/ deadline_passed
          /\ LET must_heartbeat == RunOf(s, run).las /= 0
                 ret == successful_activation_finish(s, run, loc, must_heartbeat)
             IN /\ completion' = [completion EXCEPT ![c] = Returned(run, ret)]
                /\ lastOp' = Log("successful_activation", run)
          /\ Commit(s)
  /\ UNCHANGED <<poller, hostHas, server, sinceReport>>

\* The host replies to an activation of the run with a failure: failed_activation.
HostReplyFailure(run) ==
  /\ Running
  /\ completion[run].pc = "idle"
  /\ \E i \in 1..Len(hostHas[run]) : hostHas' = [hostHas EXCEPT ![run] = SeqRemoveAt(@, i)]
  /\ LET f == failed_activation(Cur, run, "Nondeterminism") IN
     /\ Commit(f.s)
     /\ completion' = [completion EXCEPT ![run] =
                         Returned(run, [result |-> "Failed", action |-> f.ret.task_token])]
     /\ lastOp' = Log("failed_activation", run)
  /\ UNCHANGED <<poller, server, sinceReport>>

\* The worker has reported what successful_activation or failed_activation told
\* it to report (an Err is reported as a failed task, after requesting the
\* eviction of the run), and calls after_wft_report.
AfterWftReport(c, saw_final) ==
  /\ Running
  /\ completion[c].pc = "report"
  /\ LET run == completion[c].run
         ret == completion[c]
         s0 == IF ret.result = "Err" THEN request_eviction(Cur, run, "Fatal").s ELSE Cur
         reported == ret.sent \/ ret.result = "Err"
         a == after_wft_report(s0, run, reported, saw_final)
     IN
     /\ Commit(a.s)
     /\ lastOp' = Log("after_wft_report", run)
     /\ sinceReport' = [sinceReport EXCEPT ![run] = TRUE]
  /\ completion' = [completion EXCEPT ![c] = Idle]
  /\ poller' = IF c = "auto" THEN Idle
               ELSE IF activation_has_eviction(Cur, completion[c].run)
                    THEN CacheRemovePulse(poller) ELSE poller
  /\ UNCHANGED <<hostHas, server>>

\* The host (or the worker) asks for the eviction of a run.
RequestEviction(run) ==
  /\ Running
  /\ LET r == request_eviction(Cur, run, "LangRequested") IN
     /\ Commit(r.s)
     /\ lastOp' = Log("request_eviction", run)
  /\ UNCHANGED <<poller, completion, hostHas, server, sinceReport>>

\* A local activity of the run resolves.
LocalActivityResolved(run, important) ==
  /\ Running
  /\ IsSome(workflow_machines[run])
  /\ Unwrap(workflow_machines[run]).las > 0
  /\ LET n == notify_of_local_result(Cur, run, important) IN
     /\ Commit(n.s)
     /\ lastOp' = Log("notify_of_local_result", run)
  /\ UNCHANGED <<poller, completion, hostHas, server, sinceReport>>

WtmNext ==
  \/ \E run \in PolledRuns, shape \in PollShapes :
       nextTok <= MaxPolls /\ PollServer(run, shape)
  \/ ApplyBuffered
  \/ \E update_ok \in BOOLEAN, njobs \in 0..MaxJobs : ApplyFinish(update_ok, njobs)
  \/ NextPendingActivation
  \/ \E run \in PolledRuns, commands \in HostCommands : HostReplySuccess(run, commands)
  \/ \E c \in Slots : \E m \in MachineAnswers(0) : SuccessfulActivationUpdate(c, m)
  \/ \E c \in Slots, deadline_passed \in BOOLEAN : SuccessfulActivationWake(c, deadline_passed)
  \/ \E run \in PolledRuns : HostReplyFailure(run)
  \/ \E c \in Slots, saw_final \in BOOLEAN : AfterWftReport(c, saw_final)
  \/ \E run \in PolledRuns : RequestEviction(run)
  \/ \E run \in PolledRuns, important \in BOOLEAN : LocalActivityResolved(run, important)

\* =================================================== the activity side
\* max_activity_tasks of the worker
MaxActivities == 1
\* activity tasks the server hands out
MaxActTok == 2
\* cancels the server asks for
MaxCancels == 2
ActTokens == 1..MaxActTok
ActPollers == {"p1", "p2"}
ActCompleters == {"c1", "c2"}

\* RemoteInFlightActInfo::new
RemoteInFlightActInfo == [issued_cancel_to_lang |-> FALSE, known_not_found |-> FALSE]

Tracked(map, tok) == IsSome(map[tok])
Outstanding(map) == {tok \in ActTokens : Tracked(map, tok)}

\* MeteredSemaphore: acquire takes a permit the caller holds; dropping the
\* permit gives it back, forget keeps it taken; add_permit adds one.
sem_acquire(sem) == sem - 1
sem_drop(sem) == sem + 1
sem_forget(sem) == sem
add_permit(sem) == sem + 1

\* poll(), second select branch, on Some(Ok(work)) with a real task: lines 177-192.
poll_work(map, sem, tok) ==
  [map |-> [map EXCEPT ![tok] = Some(RemoteInFlightActInfo)], sem |-> sem_forget(sem),
   ret |-> [result |-> "Ok", task |-> Some([kind |-> "start", task_token |-> tok])]]

\* As poll_no_work, but the permit is forgotten instead of dropped.
poll_no_work_forgets(map, sem, outcome) ==
  [map |-> map, sem |-> sem_forget(sem), ret |-> [result |-> "Ok", task |-> None]]

\* poll(), second select branch, on a timeout, the end of the stream or an error:
\* lines 171-175 and 194-197. The permit is dropped.
poll_no_work(map, sem, outcome) ==
  [map |-> map, sem |-> sem_drop(sem),
   ret |-> IF outcome = "timeout" THEN [result |-> "Ok", task |-> None]
           ELSE IF outcome = "shutdown" THEN [result |-> "ShutDown", task |-> None]
           ELSE [result |-> "Err", task |-> None]]

\* As next_pending_cancel_task, but without the test for a cancel issued before.
next_pending_cancel_task_double_issue(map, pc) ==
  LET tok == pc.task_token IN
  IF Tracked(map, tok)
  THEN LET details == Unwrap(map[tok]) IN
       [map |-> [map EXCEPT ![tok] = Some([issued_cancel_to_lang |-> TRUE,
                   known_not_found |-> details.known_not_found
                                       \/ pc.reason = "NotFound"])],
        ret |-> [result |-> "Ok",
                 task |-> Some([kind |-> "cancel", task_token |-> tok])]]
  ELSE [map |-> map, ret |-> [result |-> "Ok", task |-> None]]

\* next_pending_cancel_task on Some(PendingActivityCancel): lines 310-331.
next_pending_cancel_task(map, pc) ==
  LET tok == pc.task_token IN
  IF Tracked(map, tok)
  THEN LET details == Unwrap(map[tok]) IN
       IF details.issued_cancel_to_lang
       THEN [map |-> map, ret |-> [result |-> "Ok", task |-> None]]
       ELSE [map |-> [map EXCEPT ![tok] = Some([issued_cancel_to_lang |-> TRUE,
                        known_not_found |-> details.known_not_found
                                            \/ pc.reason = "NotFound"])],
             ret |-> [result |-> "Ok",
                      task |-> Some([kind |-> "cancel", task_token |-> tok])]]
  ELSE [map |-> map, ret |-> [result |-> "Ok", task |-> None]]

ActIdle == [pc |-> "idle"]

ActInit ==
  /\ outstanding_activity_tasks = [tok \in ActTokens |-> None]
  /\ activities_semaphore = MaxActivities
  /\ pending_cancels = <<>>
  /\ act_poll = [p \in ActPollers |-> ActIdle]
  /\ act_complete = [c \in ActCompleters |-> ActIdle]
  /\ nextActTok = 1
  /\ cancelsMade = 0
  /\ wait_all = [pc |-> "idle"]
  /\ heartbeat = [pc |-> "idle"]
  /\ wft_wait = [pc |-> "idle"]
  /\ actLast = [op |-> "init"]

ActCommit(map, sem) ==
  /\ outstanding_activity_tasks' = map
  /\ activities_semaphore' = sem
  /\ UNCHANGED <<wtmVars, wait_all, heartbeat, wft_wait>>

\* complete_notify.notify_waiters(): the call suspended on notified() wakes and
\* goes round its loop; a call that is not suspended on it is not told.
notify_waiters(w) == IF w.pc = "waiting" THEN [pc |-> "check"] ELSE w

\* As ActCommit, for a step that calls complete_notify.notify_waiters().
ActCommitNotify(map, sem) ==
  /\ outstanding_activity_tasks' = map
  /\ activities_semaphore' = sem
  /\ wait_all' = notify_waiters(wait_all)
  /\ UNCHANGED <<wtmVars, heartbeat, wft_wait>>

\* poll() is called: the select is entered.
ActPollCall(p) ==
  /\ act_poll[p].pc = "idle"
  /\ act_poll' = [act_poll EXCEPT ![p] = [pc |-> "select"]]
  /\ ActCommit(outstanding_activity_tasks, activities_semaphore)
  /\ UNCHANGED <<pending_cancels, act_complete, nextActTok, cancelsMade, actLast>>

\* First (biased) select branch: the heartbeat manager yields a pending cancel.
\* The other branch is dropped, and with it the permit it may hold.
ActPollCancel(p) ==
  /\ act_poll[p].pc \in {"select", "polling"}
  /\ pending_cancels /= <<>>
  /\ LET r == next_pending_cancel_task(outstanding_activity_tasks, Head(pending_cancels)) IN
     /\ ActCommit(r.map, IF act_poll[p].pc = "polling" THEN sem_drop(activities_semaphore)
                         ELSE activities_semaphore)
     /\ actLast' = [op |-> "poll", branch |-> "cancel", ret |-> r.ret]
  /\ pending_cancels' = Tail(pending_cancels)
  /\ act_poll' = [act_poll EXCEPT ![p] = ActIdle]
  /\ UNCHANGED <<act_complete, nextActTok, cancelsMade>>

\* Second select branch: a permit is acquired, the long poll starts.
ActPollAcquire(p) ==
  /\ act_poll[p].pc = "select"
  /\ pending_cancels = <<>>
  /\ activities_semaphore > 0
  /\ act_poll' = [act_poll EXCEPT ![p] = [pc |-> "polling"]]
  /\ ActCommit(outstanding_activity_tasks, sem_acquire(activities_semaphore))
  /\ UNCHANGED <<pending_cancels, act_complete, nextActTok, cancelsMade, actLast>>

\* Second select branch: the long poll answers with a task.
ActPollWork(p) ==
  /\ act_poll[p].pc = "polling"
  /\ pending_cancels = <<>>
  /\ nextActTok <= MaxActTok
  /\ LET r == poll_work(outstanding_activity_tasks, activities_semaphore, nextActTok) IN
     /\ ActCommit(r.map, r.sem)
     /\ actLast' = [op |-> "poll", branch |-> "work", ret |-> r.ret]
  /\ nextActTok' = nextActTok + 1
  /\ act_poll' = [act_poll EXCEPT ![p] = ActIdle]
  /\ UNCHANGED <<pending_cancels, act_complete, cancelsMade>>

\* Second select branch: the long poll times out, ends or fails.
ActPollNoWork(p, outcome) ==
  /\ act_poll[p].pc = "polling"
  /\ pending_cancels = <<>>
  /\ LET r == poll_no_work(outstanding_activity_tasks, activities_semaphore, outcome) IN
     /\ ActCommit(r.map, r.sem)
     /\ actLast' = [op |-> "poll", branch |-> outcome, ret |-> r.ret]
  /\ act_poll' = [act_poll EXCEPT ![p] = ActIdle]
  /\ UNCHANGED <<pending_cancels, act_complete, nextActTok, cancelsMade>>

\* The server's answer to a heartbeat asks to cancel an activity it handed out.
HeartbeatCancel(tok, reason) ==
  /\ cancelsMade < MaxCancels
  /\ tok < nextActTok
  /\ pending_cancels' = Append(pending_cancels, [task_token |-> tok, reason |-> reason])
  /\ cancelsMade' = cancelsMade + 1
  /\ ActCommit(outstanding_activity_tasks, activities_semaphore)
  /\ UNCHANGED <<act_poll, act_complete, nextActTok, actLast>>

\* As ActCompleteCall, but a permit is added for an untracked token too.
ActCompleteCall_untracked_permit(c, tok, status) ==
  /\ act_complete[c].pc = "idle"
  /\ ActCommit([outstanding_activity_tasks EXCEPT ![tok] = None], activities_semaphore)
  /\ act_complete' = [act_complete EXCEPT ![c] =
       [pc |-> "removed", task_token |-> tok, calls_server |-> FALSE,
        known_not_found |-> FALSE]]
  /\ UNCHANGED <<pending_cancels, act_poll, nextActTok, cancelsMade, actLast>>

\* complete(): the entry is removed from the map (line 209).
ActCompleteCall(c, tok, status) ==
  /\ act_complete[c].pc = "idle"
  /\ IF Tracked(outstanding_activity_tasks, tok)
     THEN /\ ActCommit([outstanding_activity_tasks EXCEPT ![tok] = None], activities_semaphore)
          /\ act_complete' = [act_complete EXCEPT ![c] =
               [pc |-> "removed", task_token |-> tok,
                calls_server |-> status /= "WillCompleteAsync",
                known_not_found |-> Unwrap(outstanding_activity_tasks[tok]).known_not_found]]
          /\ UNCHANGED actLast
     ELSE /\ ActCommit(outstanding_activity_tasks, activities_semaphore)
          /\ actLast' = [op |-> "complete", branch |-> "untracked", ret |-> "Ok"]
          /\ UNCHANGED act_complete
  /\ UNCHANGED <<pending_cancels, act_poll, nextActTok, cancelsMade>>

\* complete(): the permit is given back (line 215), then the await of the
\* heartbeat manager's evict.
ActCompleteAddPermit(c) ==
  /\ act_complete[c].pc = "removed"
  /\ ActCommit(outstanding_activity_tasks, add_permit(activities_semaphore))
  /\ act_complete' = [act_complete EXCEPT ![c].pc = "evict"]
  /\ UNCHANGED <<pending_cancels, act_poll, nextActTok, cancelsMade, actLast>>

\* As ActCompleteEvicted, but known_not_found is not looked at.
ActCompleteEvicted_ignores_not_found(c) ==
  /\ act_complete[c].pc = "evict"
  /\ IF act_complete[c].calls_server
     THEN /\ act_complete' = [act_complete EXCEPT ![c].pc = "report"]
          /\ UNCHANGED actLast
     ELSE /\ act_complete' = [act_complete EXCEPT ![c] = ActIdle]
          /\ actLast' = [op |-> "complete", branch |-> "async", ret |-> "Ok"]
  /\ ActCommitNotify(outstanding_activity_tasks, activities_semaphore)
  /\ UNCHANGED <<pending_cancels, act_poll, nextActTok, cancelsMade>>

\* complete(): after the evict, the waiters of complete_notify are woken (line
\* 219); the server is called unless the activity is known not to exist or
\* completes asynchronously (lines 217-254).
ActCompleteEvicted(c) ==
  /\ act_complete[c].pc = "evict"
  /\ IF ~act_complete[c].known_not_found /\ act_complete[c].calls_server
     THEN /\ act_complete' = [act_complete EXCEPT ![c].pc = "report"]
          /\ UNCHANGED actLast
     ELSE /\ act_complete' = [act_complete EXCEPT ![c] = ActIdle]
          /\ actLast' = [op |-> "complete",
                         branch |-> IF act_complete[c].known_not_found
                                    THEN "known_not_found" ELSE "async",
                         ret |-> "Ok"]
  /\ ActCommitNotify(outstanding_activity_tasks, activities_semaphore)
  /\ UNCHANGED <<pending_cancels, act_poll, nextActTok, cancelsMade>>

\* As ActCompleteReported, but every error of the server is swallowed.
ActCompleteReported_swallows_all(c, answer) ==
  /\ act_complete[c].pc = "report"
  /\ act_complete' = [act_complete EXCEPT ![c] = ActIdle]
  /\ actLast' = [op |-> "complete", branch |-> answer, ret |-> "Ok"]
  /\ ActCommit(outstanding_activity_tasks, activities_semaphore)
  /\ UNCHANGED <<pending_cancels, act_poll, nextActTok, cancelsMade>>

\* complete(): the server answers the complete / fail / cancel call (lines 256-272).
ActCompleteReported(c, answer) ==
  /\ act_complete[c].pc = "report"
  /\ act_complete' = [act_complete EXCEPT ![c] = ActIdle]
  /\ actLast' = [op |-> "complete", branch |-> answer,
                 ret |-> IF answer \in {"ok", "NotFound"} THEN "Ok" ELSE "Err"]
  /\ ActCommit(outstanding_activity_tasks, activities_semaphore)
  /\ UNCHANGED <<pending_cancels, act_poll, nextActTok, cancelsMade>>

ActNext ==
  \/ \E p \in ActPollers : ActPollCall(p)
  \/ \E p \in ActPollers : ActPollCancel(p)
  \/ \E p \in ActPollers : ActPollAcquire(p)
  \/ \E p \in ActPollers : ActPollWork(p)
  \/ \E p \in ActPollers, outcome \in {"timeout", "shutdown", "error"} : ActPollNoWork(p, outcome)
  \/ \E tok \in ActTokens, reason \in {"NotFound", "Cancelled"} : HeartbeatCancel(tok, reason)
  \/ \E c \in ActCompleters, tok \in ActTokens,
        status \in {"Completed", "Failed", "Cancelled", "WillCompleteAsync"} :
       ActCompleteCall(c, tok, status)
  \/ \E c \in ActCompleters : ActCompleteAddPermit(c)
  \/ \E c \in ActCompleters : ActCompleteEvicted(c)
  \/ \E c \in ActCompleters, answer \in {"ok", "NotFound", "error"} : ActCompleteReported(c, answer)

\* wait_all_finished() is called.
WaitAllCall ==
  /\ wait_all.pc = "idle"
  /\ wait_all' = [pc |-> "check"]
  /\ UNCHANGED <<wtmVars, outstanding_activity_tasks, activities_semaphore, pending_cancels,
                 act_poll, act_complete, nextActTok, cancelsMade, actLast, heartbeat, wft_wait>>

\* wait_all_finished(): the loop test (line 136); it returns on an empty map.
WaitAllCheck ==
  /\ wait_all.pc = "check"
  /\ wait_all' = IF Outstanding(outstanding_activity_tasks) = {} THEN [pc |-> "done"]
                 ELSE [pc |-> "notified"]
  /\ UNCHANGED <<wtmVars, outstanding_activity_tasks, activities_semaphore, pending_cancels,
                 act_poll, act_complete, nextActTok, cancelsMade, actLast, heartbeat, wft_wait>>

\* wait_all_finished(): complete_notify.notified() is created and awaited (line
\* 137); from here on notify_waiters() wakes the call.
WaitAllSuspend ==
  /\ wait_all.pc = "notified"
  /\ wait_all' = [pc |-> "waiting"]
  /\ UNCHANGED <<wtmVars, outstanding_activity_tasks, activities_semaphore, pending_cancels,
                 act_poll, act_complete, nextActTok, cancelsMade, actLast, heartbeat, wft_wait>>

\* ------------------------------------------------------- record_heartbeat
\* Durations are in microseconds.
MicrosPerMilli == 1000
\* Duration::as_millis
as_millis(d) == d \div MicrosPerMilli
\* Duration::mul_f64(0.8), on durations whose 0.8 is a whole number of microseconds
mul_f64_08(d) == (d * 8) \div 10
Min(a, b) == IF a <= b THEN a ELSE b

\* record_heartbeat (lines 276-305): entry is what the map holds for the token,
\* default_interval and max_interval are the worker's
\* default_heartbeat_throttle_interval and max_heartbeat_throttle_interval. The
\* result is the error returned, or the interval given to the heartbeat manager.
record_heartbeat(entry, default_interval, max_interval) ==
  IF ~IsSome(entry) THEN [result |-> "UnknownActivity"]
  ELSE LET timeout == IF IsSome(Unwrap(entry).heartbeat_timeout)
                      THEN Unwrap(Unwrap(entry).heartbeat_timeout) ELSE 0
       IN IF timeout < 0 THEN [result |-> "InvalidHeartbeatTimeout"]
          ELSE [result |-> "record",
                throttle_interval |->
                  Min(IF as_millis(timeout) = 0 THEN default_interval
                      ELSE mul_f64_08(timeout),
                      max_interval)]

\* heartbeat_timeout of a tracked activity, as the server's poll response gave it
HeartbeatTimeouts ==
  {None} \cup {Some(d) : d \in {-1000, 0, 500, 1000, 10000, 30000000, 100000000}}
\* what the map holds for the token of the heartbeat
HeartbeatEntries == {None} \cup {Some([heartbeat_timeout |-> h]) : h \in HeartbeatTimeouts}
DefaultIntervals == {0, 1000, 30000000}
MaxIntervals == {0, 5000, 20000000, 60000000}

HeartbeatInit ==
  heartbeat \in [pc : {"call"}, entry : HeartbeatEntries,
                 default_interval : DefaultIntervals, max_interval : MaxIntervals]

RecordHeartbeat ==
  /\ heartbeat.pc = "call"
  /\ heartbeat' = [pc |-> "done", entry |-> heartbeat.entry,
                   default_interval |-> heartbeat.default_interval,
                   max_interval |-> heartbeat.max_interval,
                   ret |-> record_heartbeat(heartbeat.entry, heartbeat.default_interval,
                                            heartbeat.max_interval)]
  /\ UNCHANGED <<wtmVars, outstanding_activity_tasks, activities_semaphore, pending_cancels,
                 act_poll, act_complete, nextActTok, cancelsMade, wait_all, actLast,
                 wft_wait>>

vars == <<wtmVars, actVars>>

\* The workflow task manager.
Init == WtmInit /\ ActInit
Next == WtmNext
Spec == Init /\ [][Next]_vars

\* The activity tasks.
InitAct == WtmInit /\ sticky /\ ActInit
NextAct == ActNext
SpecAct == InitAct /\ [][NextAct]_vars

\* record_heartbeat() on every entry and configuration.
InitHeartbeat ==
  /\ WtmInit /\ sticky
  /\ outstanding_activity_tasks = [tok \in ActTokens |-> None]
  /\ activities_semaphore = MaxActivities
  /\ pending_cancels = <<>>
  /\ act_poll = [p \in ActPollers |-> ActIdle]
  /\ act_complete = [c \in ActCompleters |-> ActIdle]
  /\ nextActTok = 1
  /\ cancelsMade = 0
  /\ wait_all = [pc |-> "idle"]
  /\ wft_wait = [pc |-> "idle"]
  /\ actLast = [op |-> "init"]
  /\ HeartbeatInit
NextHeartbeat == RecordHeartbeat
SpecHeartbeat == InitHeartbeat /\ [][NextHeartbeat]_vars

\* The activity tasks with a wait_all_finished() call. The runtime runs every
\* task that can take a step.
NextWait == ActNext \/ WaitAllCall \/ WaitAllCheck \/ WaitAllSuspend
SpecWait ==
  /\ InitAct /\ [][NextWait]_vars
  /\ WF_vars(WaitAllCheck) /\ WF_vars(WaitAllSuspend)
  /\ \A c \in ActCompleters :
       /\ WF_vars(ActCompleteAddPermit(c)) /\ WF_vars(ActCompleteEvicted(c))
       /\ WF_vars(\E answer \in {"ok", "NotFound", "error"} : ActCompleteReported(c, answer))

\* ------------- successful_activation from its wait on, with a clock (seconds)
\* the clock stops here
MaxTime == 12
\* local activities outstanding when the wait begins
MaxWaitLA == 2
\* start_time of the task, its run's workflow_task_timeout, and the time from
\* start_time to the host's reply
StartTimes == {0, 2}
WftTimeouts == {5, 10}
ReplyDelays == {0, 3, 9}
\* Duration::mul_f32(WFT_HEARTBEAT_TIMEOUT_FRACTION); exact in f32 for 5 s and 10 s
mul_f32(d) == (d * 8) \div 10

WaitRun == "r1"
WaitFrame ==
  UNCHANGED <<pending_queries, ready_buffered_wft, cache_manager, sticky, poller,
              completion, hostHas, nextTok, arrivedBusy, parked, lastOp, sinceReport,
              outstanding_activity_tasks, activities_semaphore, pending_cancels, act_poll,
              act_complete, nextActTok, cancelsMade, wait_all, heartbeat, actLast>>
WaitManagerUnchanged == UNCHANGED <<workflow_machines, pending_activations, panics>>

\* The run is cached with an outstanding task and activation; the host's reply
\* has been pushed into the machines (lines 496-599).
InitWftWait ==
  /\ \E las \in 0..MaxWaitLA :
       workflow_machines =
         [r \in Runs |-> IF r = WaitRun
                         THEN Some([NewRun EXCEPT !.las = las,
                                                  !.wft = Some(OutstandingTask(1, 1, <<>>)),
                                                  !.activation = Some(Normal(FALSE, 1))])
                         ELSE None]
  /\ pending_activations \in {<<>>, <<PendingActInfo(WaitRun, None)>>}
  /\ pending_queries = <<>>
  /\ ready_buffered_wft = <<>>
  /\ cache_manager = <<WaitRun>>
  /\ sticky = TRUE
  /\ panics = {}
  /\ poller = Idle
  /\ completion = [c \in Slots |-> Idle]
  /\ hostHas = [r \in Runs |-> <<>>]
  /\ nextTok = 2
  /\ arrivedBusy = {}
  /\ parked = {}
  /\ lastOp = Log("init", "")
  /\ sinceReport = [r \in Runs |-> TRUE]
  /\ outstanding_activity_tasks = [tok \in ActTokens |-> None]
  /\ activities_semaphore = MaxActivities
  /\ pending_cancels = <<>>
  /\ act_poll = [p \in ActPollers |-> ActIdle]
  /\ act_complete = [c \in ActCompleters |-> ActIdle]
  /\ nextActTok = 1
  /\ cancelsMade = 0
  /\ wait_all = [pc |-> "idle"]
  /\ heartbeat = [pc |-> "idle"]
  /\ actLast = [op |-> "init"]
  /\ \E start_time \in StartTimes, wft_timeout \in WftTimeouts, delay \in ReplyDelays,
        held \in BOOLEAN, has_query_responses \in BOOLEAN :
       wft_wait = [pc |-> "deadline", now |-> start_time + delay,
                   start_time |-> start_time, wft_timeout |-> wft_timeout,
                   loc |-> [task_token |-> 1, has_query_responses |-> has_query_responses,
                            held_back |-> held],
                   wft_heartbeat_deadline |-> 0, la_count |-> 0, resolved_at |-> None,
                   must_heartbeat |-> None, returned_at |-> None, ret |-> None]

\* Time passes.
Tick ==
  /\ wft_wait.pc /= "idle"
  /\ wft_wait.now < MaxTime
  /\ wft_wait' = [wft_wait EXCEPT !.now = @ + 1]
  /\ WaitManagerUnchanged /\ WaitFrame

\* Lines 601-603.
WftHeartbeatDeadline ==
  /\ wft_wait.pc = "deadline"
  /\ wft_wait' = [wft_wait EXCEPT
       !.pc = "count",
       !.wft_heartbeat_deadline = wft_wait.start_time + mul_f32(wft_wait.wft_timeout)]
  /\ WaitManagerUnchanged /\ WaitFrame

\* Lines 937-945: the loop reads the count under the run's lock.
WaitCount ==
  /\ wft_wait.pc = "count"
  /\ IF ~exists(Cur, WaitRun)
     THEN /\ panics' = panics \cup {"Workflow cannot go missing"}
          /\ wft_wait' = [wft_wait EXCEPT !.pc = "done"]
     ELSE /\ panics' = panics
          /\ LET la_count == RunOf(Cur, WaitRun).las IN
             wft_wait' = IF la_count = 0
                         THEN [wft_wait EXCEPT !.pc = "finish", !.la_count = 0,
                                               !.must_heartbeat = Some(FALSE),
                                               !.returned_at = Some(wft_wait.now)]
                         ELSE [wft_wait EXCEPT !.pc = "clock", !.la_count = la_count]
  /\ UNCHANGED <<workflow_machines, pending_activations>> /\ WaitFrame

\* As WaitClock, returning without a look at the clock.
WaitClock_early ==
  /\ wft_wait.pc = "clock"
  /\ wft_wait' = [wft_wait EXCEPT !.pc = "finish", !.must_heartbeat = Some(TRUE),
                                  !.returned_at = Some(wft_wait.now)]
  /\ WaitManagerUnchanged /\ WaitFrame

\* Lines 945-955: the count was not zero; the loop reads the clock and returns
\* true, or waits for a notification until the deadline.
WaitClock ==
  /\ wft_wait.pc = "clock"
  /\ wft_wait' = IF wft_wait.now >= wft_wait.wft_heartbeat_deadline
                 THEN [wft_wait EXCEPT !.pc = "finish", !.must_heartbeat = Some(TRUE),
                                       !.returned_at = Some(wft_wait.now)]
                 ELSE [wft_wait EXCEPT !.pc = "sleep"]
  /\ WaitManagerUnchanged /\ WaitFrame

\* Lines 951-955: timeout_at elapses.
WaitTimeout ==
  /\ wft_wait.pc = "sleep"
  /\ wft_wait.now >= wft_wait.wft_heartbeat_deadline
  /\ wft_wait' = [wft_wait EXCEPT !.pc = "count"]
  /\ WaitManagerUnchanged /\ WaitFrame

\* A local activity of the run resolves while the call is in its wait:
\* notify_of_local_result; needs_activation wakes a sleeping wait.
WaitLocalActivityResolved(important) ==
  /\ wft_wait.pc \in {"deadline", "count", "clock", "sleep"}
  /\ exists(Cur, WaitRun) /\ RunOf(Cur, WaitRun).las > 0
  /\ LET n == notify_of_local_result(Cur, WaitRun, important)
         woken == InSeq("notify_waiters", n.s.notify) /\ wft_wait.pc = "sleep"
     IN /\ workflow_machines' = n.s.wm
        /\ pending_activations' = n.s.pa
        /\ panics' = n.s.panics
        /\ wft_wait' = [wft_wait EXCEPT
             !.pc = IF woken THEN "count" ELSE @,
             !.resolved_at = IF RunOf(n.s, WaitRun).las = 0 THEN Some(wft_wait.now) ELSE @]
  /\ WaitFrame

\* Lines 607-639: successful_activation returns.
WftHeartbeatFinish ==
  /\ wft_wait.pc = "finish"
  /\ wft_wait' = [wft_wait EXCEPT
       !.pc = "done",
       !.ret = Some(successful_activation_finish(Cur, WaitRun, wft_wait.loc,
                                                 Unwrap(wft_wait.must_heartbeat)))]
  /\ WaitManagerUnchanged /\ WaitFrame

NextWftWait ==
  \/ Tick
  \/ WftHeartbeatDeadline
  \/ WaitCount
  \/ WaitClock
  \/ WaitTimeout
  \/ \E important \in BOOLEAN : WaitLocalActivityResolved(important)
  \/ WftHeartbeatFinish
SpecWftWait == InitWftWait /\ [][NextWftWait]_vars


\* ---------------------------------------------- two runs and the run cache
\* poll responses of the server for the two runs
MaxCachePolls == 3
CacheSlots == Runs \cup {"auto"}
CacheShapes == {PollShape(1, TRUE, 0, FALSE)}
\* the machines queue no local activities; the host asks for the eviction of
\* the runs of PolledRuns only
CacheAnswers == {m \in MachineAnswers(0) : m.new_las = 0}

InitCache ==
  /\ workflow_machines = [r \in Runs |-> None]
  /\ pending_activations = <<>>
  /\ pending_queries = <<>>
  /\ ready_buffered_wft = <<>>
  /\ cache_manager = <<>>
  /\ sticky = TRUE
  /\ panics = {}
  /\ poller = Idle
  /\ completion = [c \in CacheSlots |-> Idle]
  /\ hostHas = [r \in Runs |-> <<>>]
  /\ nextTok = 1
  /\ arrivedBusy = {}
  /\ parked = {}
  /\ lastOp = Log("init", "")
  /\ sinceReport = [r \in Runs |-> TRUE]
  /\ ActInit

NextCache ==
  \/ \E run \in Runs, shape \in CacheShapes :
       nextTok <= MaxCachePolls /\ PollServer(run, shape)
  \/ ApplyBuffered
  \/ \E update_ok \in BOOLEAN, njobs \in 0..MaxJobs : ApplyFinish(update_ok, njobs)
  \/ NextPendingActivation
  \/ \E run \in Runs, commands \in HostReplies("jobs") : HostReplySuccess(run, commands)
  \/ \E c \in CacheSlots, m \in CacheAnswers : SuccessfulActivationUpdate(c, m)
  \/ \E run \in Runs : HostReplyFailure(run)
  \/ \E c \in CacheSlots, saw_final \in BOOLEAN : AfterWftReport(c, saw_final)
  \/ \E run \in PolledRuns : RequestEviction(run)
SpecCache == InitCache /\ [][NextCache]_vars

\* ------------------------------------------- the dispatch of deferred queries
\* The workflow task manager without local activities, with the poll loop, the
\* completions and the host going on whenever they can: the host calls poll
\* again, it replies to the activations it holds, and the worker finishes the
\* completions it began.
NextQueries ==
  \/ \E run \in PolledRuns, shape \in PollShapes :
       nextTok <= MaxPolls /\ PollServer(run, shape)
  \/ ApplyBuffered
  \/ \E update_ok \in BOOLEAN, njobs \in 0..MaxJobs : ApplyFinish(update_ok, njobs)
  \/ NextPendingActivation
  \/ \E run \in PolledRuns, commands \in HostCommands : HostReplySuccess(run, commands)
  \/ \E c \in Slots : \E m \in CacheAnswers : SuccessfulActivationUpdate(c, m)
  \/ \E run \in PolledRuns : HostReplyFailure(run)
  \/ \E c \in Slots, saw_final \in BOOLEAN : AfterWftReport(c, saw_final)
  \/ \E run \in PolledRuns : RequestEviction(run)

\* AfterWftReport can take a step exactly when a completion is to be reported:
\* the step frees the slot.
EnReport == Running /\ \E c \in Slots : completion[c].pc = "report"
\* NextPendingActivation takes a step when the poll loop is at its top, a query
\* activation is queued and the host has room for it: it pops the activation.
EnNpaQuery ==
  /\ Running /\ AtLoopTop /\ pending_queries /= <<>>
  /\ Len(hostHas[Head(pending_queries).run_id]) < MaxHost

\* Weak fairness of the steps of the worker and of the host's replies; for
\* AfterWftReport and NextPendingActivation the enabling condition of the
\* weak-fairness formula is written out (EnReport, EnNpaQuery).
SpecQueries ==
  /\ Init /\ [][NextQueries]_vars
  /\ WF_vars(\E update_ok \in BOOLEAN, njobs \in 0..MaxJobs : ApplyFinish(update_ok, njobs))
  /\ WF_vars(\E run \in PolledRuns, commands \in HostCommands : HostReplySuccess(run, commands))
  /\ WF_vars(\E c \in Slots : \E m \in CacheAnswers : SuccessfulActivationUpdate(c, m))
  /\ \/ []<>(~EnReport)
     \/ []<><<\E c \in Slots, saw_final \in BOOLEAN : AfterWftReport(c, saw_final)>>_vars
  /\ \/ []<>(~EnNpaQuery)
     \/ []<><<NextPendingActivation>>_vars

\* =========================================================== properties

\* What next_pending_activation does when called in the current state.
Npa == next_pending_activation(Cur)
\* The run of the activation it returns, "" if it returns none.
NpaRun == IF IsSome(Npa.ret) THEN Unwrap(Npa.ret).run_id ELSE ""
Recorded(run) == IsSome(get_activation(Cur, run))

C4_NoDuplicateActivation == "duplicate outstanding activation" \notin panics

\* The poll loop ran next_pending_activation while a run with a recorded
\* activation had both a pending activation and a buffered poll; nothing panicked.
C4_Witness ==
  /\ lastOp = Log("next_pending_activation", "")
  /\ \E run \in Runs : /\ Recorded(run) /\ has_pending(Cur, run)
                        /\ IsSome(RunOf(Cur, run).buffered_resp)
  /\ panics = {}

TaskOf(run) == get_task(Cur, run)
Buffered(run) == IF exists(Cur, run) THEN RunOf(Cur, run).buffered_resp ELSE None

\* The task tokens of the poll responses the manager holds, place by place.
HeldTokens ==
  [r \in Runs |-> IF IsSome(Buffered(r)) THEN <<Unwrap(Buffered(r)).task_token>> ELSE <<>>]
PollerToken == IF poller.pc = "updating" THEN <<poller.loc.work.task_token>> ELSE <<>>
ReadyTokens == [i \in 1..Len(ready_buffered_wft) |-> ready_buffered_wft[i].task_token]
AllHeldTokens == HeldTokens["r1"] \o HeldTokens["r2"] \o PollerToken \o ReadyTokens
NoDuplicate(q) == \A i, j \in 1..Len(q) : q[i] = q[j] => i = j

\* A poll response arrives for a run with an outstanding task: it is put in the
\* run's buffer slot, and neither applied nor made ready.
C5_BufferedOnArrival(run) ==
  (nextTok' /= nextTok /\ lastOp'.run = run /\ IsSome(TaskOf(run)))
    => /\ IsSome(Buffered(run)') /\ Unwrap(Buffered(run)').task_token = nextTok
       /\ poller'.pc /= "updating" /\ ready_buffered_wft' = ready_buffered_wft
       /\ TaskOf(run)' = TaskOf(run)

\* A buffered poll leaves its slot only for the ready queue, in after_wft_report,
\* and the run then has no outstanding task (completed, or the run evicted).
C5_PromotedAfterCompletion(run) ==
  (IsSome(Buffered(run)) /\ Buffered(run)' /= Buffered(run))
    => /\ ready_buffered_wft' = Append(ready_buffered_wft, Unwrap(Buffered(run)))
       /\ ~IsSome(Buffered(run)')
       /\ ~IsSome(TaskOf(run)')
       /\ lastOp' = Log("after_wft_report", run)

\* next_buffered_poll takes the head of the ready queue.
Surfaces == /\ ready_buffered_wft /= <<>>
            /\ ready_buffered_wft' = Tail(ready_buffered_wft)
            /\ lastOp' = Log("next_buffered_poll", Head(ready_buffered_wft).run_id)
\* The poll response next_buffered_poll returned is applied.
Applied == poller'.pc = "updating" /\ poller'.loc.work = Head(ready_buffered_wft)
\* The poll response next_buffered_poll returned is put in the buffer slot again,
\* behind an activation issued for its run since it was made ready.
BufferedAgain ==
  \E run \in Runs :
    /\ run = Head(ready_buffered_wft).run_id
    /\ Recorded(run) /\ poller'.pc /= "updating"
    /\ Buffered(run)' = Some(Head(ready_buffered_wft))

\* The ready queue changes only by a poll response joining its end or by
\* next_buffered_poll taking its head.
C5_ReadyQueue ==
  ready_buffered_wft' /= ready_buffered_wft
    => \/ /\ Len(ready_buffered_wft') = Len(ready_buffered_wft) + 1
          /\ SubSeq(ready_buffered_wft', 1, Len(ready_buffered_wft)) = ready_buffered_wft
       \/ Surfaces

\* C5 as stated: a poll response that arrives for a run with an outstanding task
\* is buffered, is never lost nor duplicated, leaves the buffer only after
\* after_wft_report completed the task or evicted the run, and what
\* next_buffered_poll returns is applied: it comes out of next_buffered_poll once.
C5_Original ==
  /\ [](NoDuplicate(AllHeldTokens))
  /\ [][/\ \A run \in Runs : C5_BufferedOnArrival(run) /\ C5_PromotedAfterCompletion(run)
        /\ C5_ReadyQueue
        /\ (Surfaces /\ Head(ready_buffered_wft).task_token \in arrivedBusy) => Applied]_vars

\* The part of C5 that holds as long as a run gets at most two poll responses
\* (with a third, the reply to a second query activation issued for the first
\* can promote it early): a poll response that arrives for a run with an
\* outstanding task is
\* buffered; it is never lost and never duplicated; it leaves the buffer slot for
\* next_buffered_poll only in after_wft_report, once the run's task is completed
\* or the run evicted; when next_buffered_poll returns it the run has no
\* outstanding task, and it is applied unless an activation was issued for the
\* run in the meantime, in which case it is buffered again.
C5_BufferedPollSurfaces ==
  /\ [](NoDuplicate(AllHeldTokens))
  /\ [][/\ \A run \in Runs : C5_BufferedOnArrival(run) /\ C5_PromotedAfterCompletion(run)
        /\ C5_ReadyQueue
        /\ (Surfaces /\ Head(ready_buffered_wft).task_token \in arrivedBusy)
             => /\ ~IsSome(TaskOf(Head(ready_buffered_wft).run_id))
                /\ (Applied \/ BufferedAgain)]_vars

\* A poll was buffered behind the outstanding task of its run, came out of
\* next_buffered_poll after the task was completed, and is being applied.
C5_Witness ==
  /\ lastOp = Log("next_buffered_poll", "r1")
  /\ poller.pc = "updating" /\ poller.loc.work.task_token \in arrivedBusy
  /\ ready_buffered_wft = <<>>
  /\ ~IsSome(TaskOf("r1"))

\* apply_new_poll_resp, up to its first await, for a poll response of the run.
ApplyNow(run, shape) ==
  apply_new_poll_resp_begin(Cur, PollResp(run, nextTok, shape.attempt, shape.incremental,
                                          shape.query_requests, shape.legacy_query))
Busy(run) == IsSome(TaskOf(run)) \/ Recorded(run)

\* For a run with an outstanding task or activation, apply_new_poll_resp returns
\* TaskBuffered and changes nothing but the run's buffer slot.
C6_BusyRunBuffers ==
  \A run \in Runs, shape \in PollShapes :
    Busy(run) =>
      LET a == ApplyNow(run, shape) IN
      /\ a.ret = TaskBuffered
      /\ \A f \in {"wft", "activation", "mjobs", "las"} : RunOf(a.s, run)[f] = RunOf(Cur, run)[f]
      /\ \A r \in Runs \ {run} : a.s.wm[r] = Cur.wm[r]
      /\ a.s.pa = Cur.pa /\ a.s.pq = Cur.pq /\ a.s.ready = Cur.ready
      /\ a.s.cache = Cur.cache

\* The outstanding task of a run is not replaced: a task is inserted only for a
\* run without one, and it is older than every poll response still held.
C6_OneTaskAtATime(run) ==
  (IsSome(TaskOf(run)') /\ TaskOf(run)' /= TaskOf(run))
    => \/ /\ ~IsSome(TaskOf(run)) /\ ~Recorded(run)
          /\ \A i \in 1..Len(AllHeldTokens') :
                AllHeldTokens'[i] > Unwrap(TaskOf(run)').task_token
       \/ /\ IsSome(TaskOf(run))
          /\ Unwrap(TaskOf(run)').task_token = Unwrap(TaskOf(run)).task_token

\* C6: the WFTs of a run are processed in server-issued order without
\* interleaving: for a run with an outstanding task or activation
\* apply_new_poll_resp returns TaskBuffered, without feeding the machines,
\* replacing the OutstandingTask or issuing an activation; a run never has two
\* WFTs in progress.
C6_NoInterleaving ==
  /\ []C6_BusyRunBuffers
  /\ [][\A run \in Runs : C6_OneTaskAtATime(run)]_vars

\* A poll response arrived for a run with an outstanding task and was buffered;
\* the task is still the earlier one.
C6_Witness ==
  /\ lastOp = Log("poll", "r1")
  /\ IsSome(Buffered("r1")) /\ Unwrap(Buffered("r1")).task_token \in arrivedBusy
  /\ IsSome(TaskOf("r1")) /\ Unwrap(TaskOf("r1")).task_token = 1
  /\ AtLoopTop

EvictionReasons == {"LangRequested", "CacheFull"}
PendingOf(s, run) == SelectSeq(s.pa, LAMBDA p : p.run_id = run)

\* C7 as stated: of two consecutive request_eviction calls for a known run the
\* first returns EvictionRequested and the second EvictionAlreadyRequested.
C7_Original ==
  \A run \in Runs, why1, why2 \in EvictionReasons :
    exists(Cur, run) =>
      LET first == request_eviction(Cur, run, why1)
          second == request_eviction(first.s, run, why2)
      IN /\ first.ret.result = "EvictionRequested"
         /\ second.ret.result = "EvictionAlreadyRequested"

\* C7: two consecutive request_eviction calls for a known run return the same
\* result: EvictionAlreadyRequested if the run's outstanding activation carries
\* an eviction, which leaves the manager as it is, and else EvictionRequested,
\* after which the pending-activation queue holds one entry for the run, an
\* eviction with the reason of the second call.
C7_EvictionIdempotence ==
  \A run \in Runs, why1, why2 \in EvictionReasons :
    exists(Cur, run) =>
      LET first == request_eviction(Cur, run, why1)
          second == request_eviction(first.s, run, why2)
      IN /\ second.ret = first.ret
         /\ first.ret.attempt = AttemptOf(Cur, run)
         /\ IF activation_has_eviction(Cur, run)
            THEN /\ first.ret.result = "EvictionAlreadyRequested"
                 /\ second.s = Cur
            ELSE /\ first.ret.result = "EvictionRequested"
                 /\ PendingOf(first.s, run) = <<PendingActInfo(run, Some(why1))>>
                 /\ PendingOf(second.s, run) = <<PendingActInfo(run, Some(why2))>>
                 /\ Len(second.s.pa) = Len(first.s.pa)
                 /\ second.s.wm = Cur.wm

\* request_eviction has run for a known run whose activation, already with the
\* host, carries no eviction: the eviction is queued, and a second call would
\* find the same.
C7_Witness ==
  /\ lastOp = Log("request_eviction", "r1")
  /\ exists(Cur, "r1") /\ Recorded("r1") /\ ~activation_has_eviction(Cur, "r1")
  /\ PendingOf(Cur, "r1") = <<PendingActInfo("r1", Some("LangRequested"))>>

\* apply_new_poll_resp is at its await with a poll response that carries a legacy
\* query: whatever jobs the machines answer with, a legacy query alone is issued
\* as the one job of the activation, and with other jobs it is put in the
\* pending_queries of the OutstandingTask and stays out of the activation.
C8_AtApply ==
  (poller.pc = "updating" /\ poller.loc.work.legacy_query
                          /\ poller.loc.work.query_requests = 0) =>
    LET run == poller.loc.work.run_id
        held == IF exists(Cur, run) THEN RunOf(Cur, run).mjobs ELSE 0
    IN \A njobs \in held..MaxJobs :
         LET f == apply_new_poll_resp_finish(Cur, poller.loc, TRUE, njobs)
             task == Unwrap(get_task(f.s, run))
         IN IF njobs = 0
            THEN /\ f.ret = IssueActivation(WorkflowActivation(run, <<LEGACY_QUERY_ID>>))
                 /\ task.pending_queries = <<>>
                 /\ get_activation(f.s, run) = Some(LegacyQuery)
            ELSE /\ f.ret = IssueActivation(WorkflowActivation(run, JobsOf(njobs)))
                 /\ task.pending_queries = <<LEGACY_QUERY_ID>>

LegacyQueued(q, run) ==
  Len(SelectSeq(q, LAMBDA a : a = create_query_activation(run, LEGACY_QUERY_ID)))
LegacyDeferred(run) ==
  IsSome(TaskOf(run)) /\ InSeq(LEGACY_QUERY_ID, Unwrap(TaskOf(run)).pending_queries)

\* A legacy query reaches the host either at once from apply_new_poll_resp or
\* from the head of pending_queries, where only after_wft_report puts it, taking
\* it from the pending_queries of the run's task.
C8_DeferredUntilReport(run) ==
  /\ (Len(hostHas'[run]) > Len(hostHas[run]) /\ hostHas'[run][Len(hostHas'[run])] = "legacy")
       => \/ /\ lastOp' = Log("apply_new_poll_resp", run)
             /\ poller.pc = "updating" /\ poller.loc.work.legacy_query
             /\ ~LegacyDeferred(run)'
          \/ /\ lastOp' = Log("next_pending_activation", run)
             /\ pending_queries /= <<>>
             /\ Head(pending_queries) = create_query_activation(run, LEGACY_QUERY_ID)
             /\ pending_queries' = Tail(pending_queries)
  /\ LegacyQueued(pending_queries', run) > LegacyQueued(pending_queries, run)
       => /\ lastOp' = Log("after_wft_report", run)
          /\ LegacyDeferred(run) /\ ~LegacyDeferred(run)'

\* C8: a poll with a legacy query and no other jobs is issued as an activation of
\* exactly the legacy query job; with other jobs the legacy query waits in the
\* task's pending_queries, stays out of the activation issued for the poll, and
\* is issued to the host only after after_wft_report has run for that task.
C8_LegacyQueryInterleaving ==
  /\ []C8_AtApply
  /\ [][\A run \in Runs : C8_DeferredUntilReport(run)]_vars

\* A legacy query that was deferred behind other jobs has been issued by
\* next_pending_activation, after after_wft_report took it from the task.
C8_Witness ==
  /\ lastOp = Log("next_pending_activation", "r1")
  /\ hostHas["r1"] = <<"legacy">>
  /\ IsSome(TaskOf("r1")) /\ ~LegacyDeferred("r1")
  /\ pending_queries = <<>>

\* C9: whenever pending_queries is non-empty, next_pending_activation returns its
\* head and leaves the pending-activation queue (and the runs) untouched,
\* whatever that queue holds.
C9_QueriesFirst ==
  pending_queries /= <<>> =>
    /\ Npa.ret = Some(Head(pending_queries))
    /\ Npa.s.pq = Tail(pending_queries)
    /\ Npa.s.pa = pending_activations
    /\ Npa.s.wm = workflow_machines

\* next_pending_activation returned a query activation although the
\* pending-activation queue held an entry of a run without recorded activation.
C9_Witness ==
  /\ lastOp = Log("next_pending_activation", "r1")
  /\ hostHas["r1"] /= <<>> /\ hostHas["r1"][Len(hostHas["r1"])] \in {"query", "legacy"}
  /\ has_pending(Cur, "r1") /\ ~Recorded("r1")

\* C10: for every run, between any two consecutive activations issued to the
\* host for the run (by apply_new_poll_resp or by next_pending_activation),
\* after_wft_report has been executed for the run.
C10_ReportBetweenActivations ==
  [][\A run \in Runs : Len(hostHas'[run]) > Len(hostHas[run]) => sinceReport[run]]_vars

Quiescent ==
  /\ \A p \in ActPollers : act_poll[p].pc = "idle"
  /\ \A c \in ActCompleters : act_complete[c].pc = "idle"

\* permits held by poll() calls in their long poll
HeldPermits == Cardinality({p \in ActPollers : act_poll[p].pc = "polling"})
\* complete() calls between the removal of the entry and add_permit
OwedPermits == Cardinality({c \in ActCompleters : act_complete[c].pc = "removed"})

\* C2: under any interleaving of poll() and complete() calls the outstanding map
\* never holds more than max_concurrent activities, and an activity is recorded
\* only by a poll() call that holds a permit, which it keeps taken.
C2_OutstandingBounded ==
  /\ [](Cardinality(Outstanding(outstanding_activity_tasks)) <= MaxActivities)
  /\ [][\A tok \in ActTokens :
          (~Tracked(outstanding_activity_tasks, tok) /\ Tracked(outstanding_activity_tasks', tok))
          => /\ \E p \in ActPollers : act_poll[p].pc = "polling" /\ act_poll'[p].pc = "idle"
             /\ activities_semaphore' = activities_semaphore]_vars

\* The map is full, a task was just recorded and another poll() waits for a permit.
C2_Witness ==
  /\ Cardinality(Outstanding(outstanding_activity_tasks)) = MaxActivities
  /\ actLast.op = "poll" /\ actLast.branch = "work"
  /\ activities_semaphore = 0
  /\ \E p \in ActPollers : act_poll[p].pc = "select"

\* C3: when no call is in progress, remaining capacity + outstanding activities
\* = max_concurrent; at every step each permit is either available, held by a
\* polling call, owed by a completing call, or stands for one map entry.
C3_CapacityAccounting ==
  /\ activities_semaphore + HeldPermits + OwedPermits
       + Cardinality(Outstanding(outstanding_activity_tasks)) = MaxActivities
  /\ Quiescent => activities_semaphore + Cardinality(Outstanding(outstanding_activity_tasks))
                    = MaxActivities

\* No call in progress; the first task was polled and completed (its permit is
\* back), and the last poll timed out, failed or met the shutdown.
C3_Witness ==
  /\ Quiescent
  /\ nextActTok = 2
  /\ ~Tracked(outstanding_activity_tasks, 1)
  /\ activities_semaphore = MaxActivities
  /\ actLast.op = "poll" /\ actLast.branch \in {"timeout", "error", "shutdown"}

\* The complete() call c is past the removal of its entry.
Completing(c) == act_complete[c].pc /= "idle"
\* poll() takes a NotFound cancel for a tracked activity not yet cancelled.
DeliversNotFound(tok) ==
  /\ pending_cancels /= <<>> /\ pending_cancels' = Tail(pending_cancels)
  /\ Head(pending_cancels) = [task_token |-> tok, reason |-> "NotFound"]
  /\ Tracked(outstanding_activity_tasks, tok)
  /\ ~Unwrap(outstanding_activity_tasks[tok]).issued_cancel_to_lang
KnownNotFound(map, tok) == Tracked(map, tok) /\ Unwrap(map[tok]).known_not_found

\* C11: a NotFound cancel that poll() delivers for an outstanding activity marks
\* it known_not_found until it is removed; complete() for such an activity
\* removes the entry, gives one permit back, makes no server call and returns Ok.
C11_NotFoundCancelThenComplete ==
  /\ [](\A c \in ActCompleters : Completing(c) =>
          /\ ~Tracked(outstanding_activity_tasks, act_complete[c].task_token)
          /\ act_complete[c].known_not_found => act_complete[c].pc /= "report")
  /\ [][\A tok \in ActTokens :
          /\ DeliversNotFound(tok) =>
               /\ KnownNotFound(outstanding_activity_tasks', tok)
               /\ actLast' = [op |-> "poll", branch |-> "cancel",
                              ret |-> [result |-> "Ok",
                                       task |-> Some([kind |-> "cancel", task_token |-> tok])]]
          /\ KnownNotFound(outstanding_activity_tasks, tok) =>
               \/ KnownNotFound(outstanding_activity_tasks', tok)
               \/ /\ ~Tracked(outstanding_activity_tasks', tok)
                  /\ activities_semaphore' = activities_semaphore
                  /\ \E c \in ActCompleters :
                       /\ ~Completing(c) /\ act_complete'[c].pc = "removed"
                       /\ act_complete'[c].task_token = tok
                       /\ act_complete'[c].known_not_found]_vars
  /\ [][\A c \in ActCompleters :
          (Completing(c) /\ act_complete[c].known_not_found
             /\ act_complete'[c] /= act_complete[c]) =>
            \/ /\ act_complete[c].pc = "removed" /\ act_complete'[c].pc = "evict"
               /\ activities_semaphore' = activities_semaphore + 1
            \/ /\ act_complete[c].pc = "evict" /\ act_complete'[c] = ActIdle
               /\ activities_semaphore' = activities_semaphore
               /\ actLast' = [op |-> "complete", branch |-> "known_not_found",
                              ret |-> "Ok"]]_vars

\* complete() returned Ok without a server call for an activity that was known
\* not found; its entry is gone and its permit is back.
C11_Witness ==
  /\ actLast.op = "complete" /\ actLast.branch = "known_not_found"
  /\ Outstanding(outstanding_activity_tasks) = {}
  /\ Quiescent /\ activities_semaphore = MaxActivities

\* C19: complete() for a tracked activity that is not known_not_found calls the
\* server after the entry is removed and the permit given back; a NotFound
\* answer is swallowed (Ok), any other error is returned; complete() for an
\* untracked token returns Ok and changes nothing.
C19_CompleteErrorHandling ==
  /\ [](\A c \in ActCompleters : act_complete[c].pc = "report" =>
          /\ ~act_complete[c].known_not_found /\ act_complete[c].calls_server
          /\ ~Tracked(outstanding_activity_tasks, act_complete[c].task_token)
          /\ activities_semaphore + HeldPermits
               + Cardinality({d \in ActCompleters : act_complete[d].pc = "removed"})
               + Cardinality(Outstanding(outstanding_activity_tasks)) = MaxActivities)
  /\ [][\A c \in ActCompleters :
          /\ (act_complete[c].pc = "report" /\ act_complete'[c] /= act_complete[c]) =>
               /\ act_complete'[c] = ActIdle
               /\ actLast'.op = "complete"
               /\ actLast'.branch \in {"ok", "NotFound", "error"}
               /\ actLast'.ret = IF actLast'.branch = "error" THEN "Err" ELSE "Ok"
               /\ UNCHANGED <<outstanding_activity_tasks, activities_semaphore>>
          /\ (~Completing(c) /\ Completing(c)') =>
               /\ Tracked(outstanding_activity_tasks, act_complete'[c].task_token)
               /\ ~Tracked(outstanding_activity_tasks', act_complete'[c].task_token)
               /\ act_complete'[c].pc = "removed"]_vars
  /\ [][(/\ ~(actLast.op = "complete" /\ actLast.branch = "untracked")
          /\ actLast'.op = "complete" /\ actLast'.branch = "untracked")
          => /\ actLast'.ret = "Ok"
             /\ UNCHANGED <<outstanding_activity_tasks, activities_semaphore, act_complete,
                            pending_cancels, act_poll>>]_vars

\* The server answered NotFound to the completion of a tracked activity:
\* complete() returned Ok, the entry is gone and the permit is back.
C19_Witness ==
  /\ actLast.op = "complete" /\ actLast.branch = "NotFound" /\ actLast.ret = "Ok"
  /\ Outstanding(outstanding_activity_tasks) = {}
  /\ Quiescent /\ activities_semaphore = MaxActivities

\* C20: wait_all_finished() returns only on an empty map, and while it is
\* suspended on complete_notify a wake-up is still to come: the map holds an
\* activity, or a complete() call has removed one and has yet to notify. (A call
\* suspended with neither never returns.)
C20_WaitAllFinished ==
  /\ [](wait_all.pc = "waiting" =>
          \/ Outstanding(outstanding_activity_tasks) /= {}
          \/ \E c \in ActCompleters : act_complete[c].pc \in {"removed", "evict"})
  /\ [][(wait_all.pc /= "done" /\ wait_all'.pc = "done")
          => Outstanding(outstanding_activity_tasks) = {}]_vars

\* C17: for a tracked activity with a valid heartbeat_timeout, record_heartbeat
\* gives the heartbeat manager min(max_heartbeat_throttle_interval, X), where X
\* is default_heartbeat_throttle_interval if heartbeat_timeout is None or zero
\* and heartbeat_timeout * 0.8 otherwise; with a non-zero default (and a
\* non-zero cap) the interval is not zero.
C17_ThrottleInterval ==
  (heartbeat.pc = "done" /\ IsSome(heartbeat.entry)) =>
    LET h == Unwrap(heartbeat.entry).heartbeat_timeout
        X == IF h = None \/ h = Some(0) THEN heartbeat.default_interval
             ELSE mul_f64_08(Unwrap(h))
    IN (h = None \/ Unwrap(h) >= 0) =>
         /\ heartbeat.ret.result = "record"
         /\ heartbeat.ret.throttle_interval = Min(heartbeat.max_interval, X)
         /\ (heartbeat.default_interval > 0 /\ heartbeat.max_interval > 0)
              => heartbeat.ret.throttle_interval > 0

\* successful_activation for a reply of the host without commands, from its
\* entry to its return, the machines answering m.
ReplyNoCommands(run, m, must_heartbeat) ==
  LET b == successful_activation_begin(Cur, run, <<>>) IN
  IF b.ret.done THEN Ret(b.s, b.ret.ret)
  ELSE LET u == successful_activation_update(b.s, run, b.ret, m)
           loc2 == [task_token |-> b.ret.task_token,
                    has_query_responses |-> b.ret.has_query_responses,
                    held_back |-> held_back(b.ret, m)]
       IN IF ~u.ret THEN Ret(u.s, ErrFatal)
          ELSE Ret(u.s, successful_activation_finish(u.s, run, loc2, must_heartbeat))
\* The machines' answers to a completion of the run that is not an error.
AnswersOf(run) == {m \in MachineAnswers(RunOf(Cur, run).las) : m.ok}
\* The host holds an activation of the run that has an eviction job and nothing
\* else, and has not replied yet.
EvictionOnlyWithHost(run) ==
  /\ activation_has_only_eviction(Cur, run)
  /\ completion[run].pc = "idle" /\ InSeq("jobs", hostHas[run])
\* after_wft_report has evicted the run and made its buffered poll ready.
EvictedAndPromoted(run, a) ==
  /\ ~exists(a.s, run) /\ ~has_pending(a.s, run) /\ ~InSeq(run, a.s.cache)
  /\ a.s.ready = IF IsSome(Buffered(run)) THEN Append(ready_buffered_wft, Unwrap(Buffered(run)))
                 ELSE ready_buffered_wft

\* C12 as stated: the reply without commands to an eviction-only activation
\* makes successful_activation return no server action, whatever the machines
\* hold, and after_wft_report then evicts the run and promotes its buffered poll.
C12_Original ==
  \A run \in PolledRuns : EvictionOnlyWithHost(run) =>
    \A m \in AnswersOf(run), must_heartbeat \in BOOLEAN :
      LET r == ReplyNoCommands(run, m, must_heartbeat) IN
      /\ r.ret = OkNone
      /\ \A saw_final \in BOOLEAN :
           EvictedAndPromoted(run, after_wft_report(r.s, run, FALSE, saw_final))

\* C12: the reply without commands to an eviction-only activation makes
\* successful_activation return no server action when the machines have no
\* commands for the server either, and after_wft_report then evicts the run and
\* promotes its buffered poll, whether or not a completion was sent.
C12_EvictionOnlyNoCommands ==
  \A run \in PolledRuns : EvictionOnlyWithHost(run) =>
    \A m \in AnswersOf(run), must_heartbeat \in BOOLEAN :
      LET r == ReplyNoCommands(run, m, must_heartbeat) IN
      /\ ~m.server_cmds => r.ret = OkNone
      /\ \A saw_final \in BOOLEAN :
           EvictedAndPromoted(run, after_wft_report(r.s, run, IsSome(r.ret.action), saw_final))

\* The host holds an eviction-only activation of a run that has an outstanding
\* task and a buffered poll, no other activation is pending for the run.
C12_Witness ==
  /\ EvictionOnlyWithHost("r1")
  /\ IsSome(TaskOf("r1")) /\ IsSome(Buffered("r1"))
  /\ ~has_pending(Cur, "r1")

\* The call has returned from the wait / from successful_activation.
WaitReturned == IsSome(wft_wait.must_heartbeat)
WftWaitDone == wft_wait.pc = "done" /\ IsSome(wft_wait.ret)
DeadlineSet == wft_wait.pc \notin {"idle", "deadline"}
DeadlineIsFraction ==
  DeadlineSet => 10 * (wft_wait.wft_heartbeat_deadline - wft_wait.start_time)
                   = 8 * wft_wait.wft_timeout
AllResolvedBeforeDeadline ==
  \/ IsSome(wft_wait.resolved_at) /\ Unwrap(wft_wait.resolved_at) < wft_wait.wft_heartbeat_deadline
  \/ wft_wait.la_count = 0 /\ Unwrap(wft_wait.returned_at) < wft_wait.wft_heartbeat_deadline

\* C13 as stated: the deadline is start_time + 0.8 x wft_timeout; a wait that
\* returns true returns no earlier than the deadline and the call then
\* produces WftComplete with force_new_wft = true; when all local activities
\* resolved before the deadline the wait returns false and force_new_wft is false.
C13_Original ==
  /\ DeadlineIsFraction
  /\ WftWaitDone =>
       /\ wft_wait.must_heartbeat = Some(TRUE) =>
            /\ Unwrap(wft_wait.returned_at) >= wft_wait.wft_heartbeat_deadline
            /\ wft_wait.ret = Some(OkSome(WftComplete(1, TRUE)))
       /\ AllResolvedBeforeDeadline =>
            /\ wft_wait.must_heartbeat = Some(FALSE)
            /\ IsSome(Unwrap(wft_wait.ret).action) =>
                 ~Unwrap(Unwrap(wft_wait.ret).action).force_new_wft

\* C13: the deadline is start_time + 0.8 x wft_timeout; the wait returns true
\* only at or after the deadline and only when the count of outstanding local
\* activities it read was not zero, and false only when it read a count of
\* zero; a WftComplete the call produces carries what the wait returned as
\* force_new_wft, and it is produced exactly when query responses are present,
\* or no activation is pending for the run and nothing else holds the
\* completion back.
C13_WftHeartbeat ==
  /\ DeadlineIsFraction
  /\ WaitReturned =>
       /\ wft_wait.must_heartbeat = Some(TRUE) =>
            /\ Unwrap(wft_wait.returned_at) >= wft_wait.wft_heartbeat_deadline
            /\ wft_wait.la_count > 0
       /\ wft_wait.must_heartbeat = Some(FALSE) => wft_wait.la_count = 0
  /\ WftWaitDone =>
       LET sent == wft_wait.loc.has_query_responses
                     \/ ~(has_pending(Cur, WaitRun) \/ wft_wait.loc.held_back)
       IN wft_wait.ret =
            Some(IF sent THEN OkSome(WftComplete(1, Unwrap(wft_wait.must_heartbeat)))
                 ELSE OkNone)

\* The call sent a heartbeat after it slept to the deadline with a local
\* activity outstanding.
C13_Witness ==
  /\ WftWaitDone
  /\ wft_wait.ret = Some(OkSome(WftComplete(1, TRUE)))
  /\ Unwrap(wft_wait.returned_at) > wft_wait.start_time + 3
  /\ wft_wait.now < MaxTime

\* A poll response for a run the manager does not hold can arrive, and the
\* sticky cache is full of other runs, the least recently used of which the
\* manager holds.
NewRunCacheFull(B) ==
  /\ Running /\ poller.pc = "drained" /\ CacheHasCapacity
  /\ sticky /\ CacheCap > 0 /\ Len(cache_manager) = CacheCap
  /\ exists(Cur, Head(cache_manager))
  /\ ~InSeq(B, cache_manager) /\ ~exists(Cur, B)
\* add_new_run_to_cache for a poll of the new run B sets the poll aside.
C14_SetAside(B, shape) ==
  LET A == Head(cache_manager)
      work == PollResp(B, nextTok, shape.attempt, shape.incremental,
                       shape.query_requests, shape.legacy_query)
      a == add_new_run_to_cache(Cur, work)
  IN /\ a.ret = None
     /\ InSeq(PendingActInfo(A, Some("CacheFull")), a.s.pa)
     /\ a.s.ready = Append(ready_buffered_wft, work)
     /\ ~exists(a.s, B)
\* next_buffered_poll hands the poll loop a poll that was set aside only when
\* the run that was evicted for it is gone.
C14_SurfacesAfterEviction ==
  \A p \in parked :
    (Surfaces /\ Head(ready_buffered_wft).task_token = p.task_token)
      => ~exists(Cur, p.evicted)

\* C14: with a full sticky cache, add_new_run_to_cache for a poll of a new run
\* B returns None, enqueues the eviction of the least recently used run A with
\* reason CacheFull and puts B's poll on the ready queue; the poll loop gets
\* B's poll from next_buffered_poll only after A has been evicted.
C14_CacheFullOnNewRun ==
  /\ [](\A B \in Runs, shape \in CacheShapes : NewRunCacheFull(B) => C14_SetAside(B, shape))
  /\ [][C14_SurfacesAfterEviction]_vars

\* The poll of the new run has come out of next_buffered_poll after the
\* eviction of the cached run.
C14_Witness ==
  \E p \in parked :
    /\ poller.pc = "updating" /\ poller.loc.work.task_token = p.task_token
    /\ ~exists(Cur, p.evicted)
    /\ lastOp = Log("next_buffered_poll", poller.loc.work.run_id)

\* The capacity of the cache under the policy in force.
Capacity == IF sticky THEN CacheCap ELSE 0
WithinCapacity(s) ==
  /\ Len(s.cache) <= Capacity
  /\ \A i, j \in 1..Len(s.cache) : s.cache[i] = s.cache[j] => i = j

TaskAfterCompleteWft(s, run, reported, saw_final) ==
  get_task(complete_wft(s, run, reported, saw_final).s, run)

Servable(s, e) ==
  /\ exists(s, e.run_id) /\ ~IsSome(get_activation(s, e.run_id))
  /\ RunOf(s, e.run_id).mjobs > 0 \/ IsSome(e.needs_eviction)
\* The poll loop is about to call next_pending_activation.
AtNextPendingActivation == Running /\ AtLoopTop

\* C18: when next_pending_activation returns None, pending_queries is empty and
\* no entry of the pending-activation queue is for a run without
\* OutstandingActivation whose machines have jobs or whose eviction is
\* recorded; an activation it returns from the pending-activation queue is for
\* the run of the first entry whose run has no OutstandingActivation.
C18_PendingDrainedFirst ==
  AtNextPendingActivation =>
    /\ Npa.ret = None =>
         /\ pending_queries = <<>> /\ Npa.s.pq = <<>>
         /\ \A i \in 1..Len(Npa.s.pa) : ~Servable(Npa.s, Npa.s.pa[i])
    /\ (IsSome(Npa.ret) /\ pending_queries = <<>>) =>
         LET first == FirstMatching(pending_activations, NoActivationRuns(Cur))
         IN first > 0 /\ NpaRun = pending_activations[first].run_id

\* next_pending_activation returns the activation of the second entry of the
\* queue, the run of the first entry having an OutstandingActivation.
C18_Witness ==
  /\ AtNextPendingActivation
  /\ Len(pending_activations) = 2 /\ Recorded(pending_activations[1].run_id)
  /\ NpaRun = pending_activations[2].run_id

\* ------------------------------------------------------ failed_activation
FailReasons == {"Nondeterminism", "LangFail"}

\* C21: failed_activation returns NoReport and changes nothing when the run has
\* no outstanding task; with a LegacyQuery activation outstanding it returns
\* ReportLegacyQueryFailure with the task's token and requests no eviction;
\* otherwise it requests the eviction of the run (which queues an eviction entry
\* and pulses the waiters unless the outstanding activation already carries the
\* eviction) and returns Report with the task's token exactly when the task's
\* attempt is at most 1, else NoReport.
C21_FailedActivationOutcome ==
  \A run \in Runs, reason \in FailReasons :
    LET f == failed_activation(Cur, run, reason)
        ot == get_task(Cur, run)
    IN IF ~IsSome(ot) THEN f.ret = NoReport /\ f.s = Cur
       ELSE LET tt == Unwrap(ot).task_token IN
            IF get_activation(Cur, run) = Some(LegacyQuery)
            THEN f.ret = ReportLegacyQueryFailure(tt) /\ f.s = Cur
            ELSE /\ IF activation_has_eviction(Cur, run) THEN f.s = Cur
                    ELSE /\ PendingOf(f.s, run) = <<PendingActInfo(run, Some(reason))>>
                         /\ f.s.notify = <<"notify_waiters">>
                         /\ f.s.wm = Cur.wm
                 /\ f.ret = IF Unwrap(ot).attempt <= 1 THEN Report(tt) ELSE NoReport

\* The host has failed an activation of a task on its second attempt, which is
\* not a legacy query: the eviction is queued and nothing is to be reported.
C21_Witness ==
  /\ lastOp = Log("failed_activation", "r1")
  /\ IsSome(TaskOf("r1")) /\ Unwrap(TaskOf("r1")).attempt = 2
  /\ completion["r1"].pc = "report" /\ completion["r1"].result = "Failed"
  /\ ~completion["r1"].sent
  /\ PendingOf(Cur, "r1") = <<PendingActInfo("r1", Some("Nondeterminism"))>>

\* The entries of the queue that belong to other runs than run.
PendingOfOthers(s, run) == SelectSeq(s.pa, LAMBDA p : p.run_id /= run)

\* C22: request_eviction for a run the concurrency manager does not know returns
\* NotFound and leaves the pending-activation queue, the cache and the notifier
\* as they are; for a known run whose outstanding activation carries no
\* eviction it leaves an eviction notice for the run in the queue, pulses all
\* waiters and returns EvictionRequested with the attempt of the outstanding
\* task, None when the run has no task.
C22_RequestEviction ==
  \A run \in Runs, why \in EvictionReasons :
    LET r == request_eviction(Cur, run, why) IN
    /\ ~exists(Cur, run) =>
         /\ r.ret = NotFound
         /\ r.s.pa = pending_activations /\ r.s.cache = cache_manager
         /\ r.s.notify = <<>> /\ r.s = Cur
    /\ (exists(Cur, run) /\ ~activation_has_eviction(Cur, run)) =>
         /\ PendingOf(r.s, run) = <<PendingActInfo(run, Some(why))>>
         /\ PendingOfOthers(r.s, run) = PendingOfOthers(Cur, run)
         /\ r.s.notify = <<"notify_waiters">>
         /\ r.ret.result = "EvictionRequested"
         /\ r.ret.attempt = IF IsSome(TaskOf(run)) THEN Some(Unwrap(TaskOf(run)).attempt)
                            ELSE None
         /\ r.s.wm = Cur.wm /\ r.s.cache = cache_manager

\* request_eviction has run for a known run without outstanding activation and
\* without task, and for a run the manager does not know.
C22_Witness ==
  /\ lastOp = Log("request_eviction", "r1")
  /\ exists(Cur, "r1") /\ ~Recorded("r1") /\ ~IsSome(TaskOf("r1"))
  /\ PendingOf(Cur, "r1") = <<PendingActInfo("r1", Some("LangRequested"))>>
  /\ ~exists(Cur, "r2") /\ request_eviction(Cur, "r2", "LangRequested").ret = NotFound

\* ------------------------------------------------------- after_wft_report
\* The state in which the worker calls after_wft_report for the completion in
\* slot c, and the call it makes.
ReportFrom(c) ==
  LET s0 == IF completion[c].result = "Err"
            THEN request_eviction(Cur, completion[c].run, "Fatal").s ELSE Cur
  IN [s0 EXCEPT !.notify = <<>>]
ReportCall(c, saw_final) ==
  after_wft_report(ReportFrom(c), completion[c].run,
                   completion[c].sent \/ completion[c].result = "Err", saw_final)
LastPulse(s) == IF s.notify = <<>> THEN "" ELSE s.notify[Len(s.notify)]

\* C23: every call of after_wft_report that returns leaves the run without
\* OutstandingActivation, and its last pulse of the notifier is a notify_one.
C23_ActivationDeleted ==
  \A c \in Slots, saw_final \in BOOLEAN :
    (Running /\ completion[c].pc = "report") =>
      LET a == ReportCall(c, saw_final) IN
      a.s.panics = {} =>
        /\ ~IsSome(get_activation(a.s, completion[c].run))
        /\ LastPulse(a.s) = "notify_one"

\* The task of the run in s has queries that wait for the end of the task.
HasDeferredQueries(s, run) ==
  IsSome(get_task(s, run)) /\ Unwrap(get_task(s, run)).pending_queries /= <<>>

\* after_wft_report is called for a run whose activation carried no eviction,
\* that has no pending activation and whose task has pending_queries.
QueriesDue(c) ==
  LET s0 == ReportFrom(c)
      run == completion[c].run
  IN /\ Running /\ completion[c].pc = "report"
     /\ ~activation_has_eviction(s0, run) /\ ~has_pending(s0, run)
     /\ HasDeferredQueries(s0, run)

\* Such a call turns every query of the task into one activation at the end of
\* pending_queries, empties the task's pending_queries, pulses the waiters,
\* keeps the task, returns false and leaves the cache as it is.
C24_AtReport ==
  \A c \in Slots, saw_final \in BOOLEAN :
    QueriesDue(c) =>
      LET s0 == ReportFrom(c)
          run == completion[c].run
          task == Unwrap(get_task(s0, run))
          qs == task.pending_queries
          a == ReportCall(c, saw_final)
      IN /\ a.s.pq = pending_queries \o
                       [i \in 1..Len(qs) |-> create_query_activation(run, qs[i])]
         /\ get_task(a.s, run) = Some([task EXCEPT !.pending_queries = <<>>])
         /\ a.s.notify = <<"notify_waiters">>
         /\ a.ret = FALSE
         /\ a.s.cache = cache_manager /\ a.s.pa = pending_activations

\* pending_queries changes only by after_wft_report putting the query
\* activations of its run at the end, or by next_pending_activation taking the
\* head and handing it to the host.
C24_PoppedOnce ==
  pending_queries' /= pending_queries =>
    \/ /\ lastOp'.op = "after_wft_report"
       /\ Len(pending_queries') > Len(pending_queries)
       /\ SubSeq(pending_queries', 1, Len(pending_queries)) = pending_queries
       /\ \A i \in (Len(pending_queries) + 1)..Len(pending_queries') :
            /\ pending_queries'[i].run_id = lastOp'.run
            /\ KindOf(pending_queries'[i]) \in {"query", "legacy"}
    \/ /\ lastOp'.op = "next_pending_activation"
       /\ pending_queries' = Tail(pending_queries)
       /\ LET act == Head(pending_queries) IN
          hostHas' = [hostHas EXCEPT ![act.run_id] = Append(@, KindOf(act))]

\* C24: after_wft_report, called when the activation carried no eviction, the
\* run has no pending activation and its task has pending_queries, turns each
\* query into one query activation in pending_queries, empties the task's
\* list, pulses the waiters, keeps the task (result false) and leaves the cache
\* alone; a queued query activation leaves pending_queries only as the
\* activation next_pending_activation returns, and it does leave it.
C24_QueriesAfterReport ==
  /\ []C24_AtReport
  /\ [][C24_PoppedOnce]_vars
  /\ (pending_queries /= <<>>) ~> (pending_queries = <<>>)

\* Both queries of a task have been handed to the host by
\* next_pending_activation after after_wft_report took them from the task.
C24_Witness ==
  /\ lastOp = Log("next_pending_activation", "r1")
  /\ hostHas["r1"] = <<"query", "query">>
  /\ pending_queries = <<>>
  /\ IsSome(TaskOf("r1")) /\ Unwrap(TaskOf("r1")).pending_queries = <<>>

\* --------------------------------------------------------------- evict_run
\* How often the poll response is in the queue.
Occurrences(q, x) == Cardinality({i \in 1..Len(q) : q[i] = x})
CacheOfOthers(s, run) == SelectSeq(s.cache, LAMBDA r : r /= run)

\* C25: evict_run leaves the run out of the cache and out of the concurrency
\* manager (no machines, task or activation), leaves no entry of the run in the
\* pending-activation queue, and puts a poll response that was buffered for
\* the run at the end of the ready queue, where it is exactly once; the other
\* runs, their queue entries and their places in the cache stay as they are.
C25_EvictRun ==
  \A run \in Runs :
    LET s == evict_run(Cur, run) IN
    /\ ~InSeq(run, s.cache)
    /\ ~exists(s, run)
    /\ get_task(s, run) = None /\ get_activation(s, run) = None
    /\ PendingOf(s, run) = <<>>
    /\ IF IsSome(Buffered(run))
       THEN /\ s.ready = Append(ready_buffered_wft, Unwrap(Buffered(run)))
            /\ Occurrences(s.ready, Unwrap(Buffered(run))) = 1
       ELSE s.ready = ready_buffered_wft
    /\ \A other \in Runs \ {run} : s.wm[other] = workflow_machines[other]
    /\ PendingOfOthers(s, run) = PendingOfOthers(Cur, run)
    /\ CacheOfOthers(s, run) = CacheOfOthers(Cur, run)
    /\ s.pq = pending_queries /\ s.panics = panics

\* after_wft_report has evicted a run that was cached, had a task and a
\* buffered poll response: the poll response is ready, the other run is held.
C25_Witness ==
  /\ lastOp = Log("after_wft_report", "r1")
  /\ ~exists(Cur, "r1") /\ ~InSeq("r1", cache_manager) /\ ~has_pending(Cur, "r1")
  /\ \E i \in 1..Len(ready_buffered_wft) : ready_buffered_wft[i].run_id = "r1"
  /\ exists(Cur, "r2")

\* --------------------------------------------- next_pending_activation
\* The entry next_pending_activation pops: the first whose run has no
\* OutstandingActivation (0 if there is none).
FirstServed == FirstMatching(pending_activations, NoActivationRuns(Cur))

\* C26: with no query activation queued, an activation next_pending_activation
\* returns has jobs, is recorded as the run's OutstandingActivation and its run
\* is touched in the cache; it carries an eviction job only when the machines
\* held no job and the popped entry had needs_eviction set, and the eviction
\* is then its only job; a popped entry whose machines hold jobs gets no
\* eviction job; a popped entry with no job and no needs_eviction is dropped,
\* None is returned and no OutstandingActivation is recorded.
C26_EvictionJobAlone ==
  (pending_queries = <<>> /\ FirstServed > 0
     /\ exists(Cur, pending_activations[FirstServed].run_id)) =>
    LET e == pending_activations[FirstServed]
        run == e.run_id
        held == RunOf(Cur, run).mjobs
    IN /\ IsSome(Npa.ret) =>
            LET act == Unwrap(Npa.ret) IN
            /\ act.run_id = run /\ act.jobs /= <<>>
            /\ has_evict_job(act) <=> (held = 0 /\ IsSome(e.needs_eviction))
            /\ has_evict_job(act) => act.jobs = <<"evict">>
            /\ ~has_evict_job(act) => act.jobs = JobsOf(held)
            /\ get_activation(Npa.s, run) = Some(Normal(has_evict_job(act), Len(act.jobs)))
            /\ Npa.s.cache = cache_touch(Cur, run).cache
            /\ Npa.s.pa = SeqRemoveAt(pending_activations, FirstServed)
       /\ (held > 0 \/ IsSome(e.needs_eviction)) => IsSome(Npa.ret)
       /\ (held = 0 /\ ~IsSome(e.needs_eviction)) =>
            /\ Npa.ret = None
            /\ Npa.s.wm = workflow_machines
            /\ Npa.s.pa = SeqRemoveAt(pending_activations, FirstServed)
            /\ Npa.s.cache = cache_manager

\* next_pending_activation has returned an activation whose only job is the
\* eviction, recorded as such, of a run that is cached.
C26_Witness ==
  /\ lastOp = Log("next_pending_activation", "r1")
  /\ get_activation(Cur, "r1") = Some(Normal(TRUE, 1))
  /\ hostHas["r1"] /= <<>> /\ hostHas["r1"][Len(hostHas["r1"])] = "jobs"
  /\ InSeq("r1", cache_manager) /\ ~has_pending(Cur, "r1")

\* ---------------------------------------------------- apply_new_poll_resp
\* A poll response for the run can reach apply_new_poll_resp now.
PollCanArrive(run) ==
  Running /\ poller.pc = "drained" /\ CacheHasCapacity /\ ~PollInFlight(run)

\* The jobs the machines of the run hold in s.
HeldJobs(s, run) == IF exists(s, run) THEN RunOf(s, run).mjobs ELSE 0

\* apply_new_poll_resp as a whole for a poll response the poll loop hands it
\* after add_new_run_to_cache, when the update of the machines succeeds with
\* njobs jobs; ret.applied = FALSE when the poll response was set aside.
ApplyWhole(work, njobs) ==
  LET a == add_new_run_to_cache(Cur, work) IN
  IF ~IsSome(a.ret) THEN Ret(a.s, [applied |-> FALSE])
  ELSE LET b == apply_new_poll_resp_begin(a.s, work) IN
       IF b.ret.outcome /= "updating" THEN Ret(b.s, [applied |-> FALSE])
       ELSE LET f == apply_new_poll_resp_finish(b.s, b.ret, TRUE, njobs) IN
            Ret(f.s, [applied |-> TRUE, outcome |-> f.ret, loc |-> b.ret])

\* C27: apply_new_poll_resp returns Evict with a Fatal error and records neither
\* an OutstandingTask nor an OutstandingActivation for every poll response that
\* has both query_requests and a legacy_query, whether the run is known to the
\* manager or not and whatever the history it carries.
C27_BothQueriesFatal ==
  \A run \in PolledRuns, incremental \in BOOLEAN, nq \in 1..MaxQueries, njobs \in 0..MaxJobs :
    (PollCanArrive(run) /\ njobs >= HeldJobs(Cur, run)) =>
      LET a == ApplyWhole(PollResp(run, nextTok, 1, incremental, nq, TRUE), njobs) IN
      a.ret.applied =>
        /\ a.ret.outcome = Evict("Fatal")
        /\ get_task(a.s, run) = None
        /\ get_activation(a.s, run) = None

\* The poll response apply_new_poll_resp is updating the machines for carries
\* query_requests that the cache miss defers, and a legacy query.
BothQueriesDeferred(loc) ==
  loc.work.query_requests > 0 /\ loc.did_miss_cache /\ loc.work.legacy_query

\* The number of jobs of the activation apply_new_poll_resp builds from njobs
\* jobs of the machines: with the folded queries, and with the legacy query
\* when it would be empty without.
ActivationJobs(loc, njobs) ==
  LET n0 == njobs + (IF loc.did_miss_cache THEN 0 ELSE loc.work.query_requests)
  IN IF n0 = 0 /\ loc.work.legacy_query THEN 1 ELSE n0

\* The outcome of apply_new_poll_resp chosen from the jobs of the activation and
\* the outstanding local activities, with what is recorded for the run.
OutcomeAsClaimed(loc, njobs) ==
  LET run == loc.work.run_id
      f == apply_new_poll_resp_finish(Cur, loc, TRUE, njobs)
      n == ActivationJobs(loc, njobs)
      las == IF exists(Cur, run) THEN RunOf(Cur, run).las ELSE 0
      task == get_task(f.s, run)
  IN
  /\ IsSome(task)
  /\ Unwrap(task).task_token = loc.work.task_token
  /\ n = 0 /\ las > 0 => f.ret = LocalActsOutstanding /\ get_activation(f.s, run) = None
  /\ n = 0 /\ las = 0 => f.ret = Autocomplete /\ get_activation(f.s, run) = None
  /\ n > 0 =>
       /\ f.ret.outcome = "IssueActivation"
       /\ f.ret.act.run_id = run
       /\ Len(f.ret.act.jobs) = n
       /\ IsSome(get_activation(f.s, run))

\* C28 as stated: for a poll that is not buffered and whose update succeeds,
\* apply_new_poll_resp records the OutstandingTask and returns
\* LocalActsOutstanding (no jobs, local activities outstanding), Autocomplete
\* (no jobs, none outstanding) or IssueActivation with an OutstandingActivation
\* recorded; in the first two cases no OutstandingActivation is recorded.
C28_Original ==
  \A njobs \in 0..MaxJobs :
    (poller.pc = "updating" /\ njobs >= HeldJobs(Cur, poller.loc.work.run_id)) =>
      OutcomeAsClaimed(poller.loc, njobs)

\* C28 (amended): the same, for a poll that is not buffered, whose update
\* succeeds and that does not carry a legacy query together with query_requests
\* deferred by a cache miss; such a poll gets Evict with a Fatal error and no
\* OutstandingTask or OutstandingActivation is recorded.
C28_NewTaskOutcome ==
  \A njobs \in 0..MaxJobs :
    (poller.pc = "updating" /\ njobs >= HeldJobs(Cur, poller.loc.work.run_id)) =>
      IF BothQueriesDeferred(poller.loc)
      THEN LET run == poller.loc.work.run_id
               f == apply_new_poll_resp_finish(Cur, poller.loc, TRUE, njobs)
           IN /\ f.ret = Evict("Fatal")
              /\ get_task(f.s, run) = None
              /\ get_activation(f.s, run) = None
      ELSE OutcomeAsClaimed(poller.loc, njobs)

\* A poll without queries is being applied to a run that has local activities
\* outstanding and holds no job: LocalActsOutstanding is among the outcomes.
C28_Witness ==
  /\ poller.pc = "updating"
  /\ ~BothQueriesDeferred(poller.loc)
  /\ LET run == poller.loc.work.run_id IN
     /\ exists(Cur, run)
     /\ RunOf(Cur, run).las > 0
     /\ HeldJobs(Cur, run) = 0
     /\ apply_new_poll_resp_finish(Cur, poller.loc, TRUE, 0).ret = LocalActsOutstanding
     /\ apply_new_poll_resp_finish(Cur, poller.loc, TRUE, 1).ret.outcome = "IssueActivation"

\* ------------------------------------------ instantiate_or_update_workflow
\* Histories of a poll response, as the event ids of their events.
Histories == {<<>>, <<1>>, <<1, 2>>, <<2>>, <<3, 4>>}

\* poll_resp_is_incremental of instantiate_or_update_workflow: the first event,
\* if any, has an id above 1; or there is no event.
IsIncremental(history) ==
  LET first_above_one == IF Len(history) >= 1 THEN history[1] > 1 ELSE FALSE
  IN first_above_one \/ history = <<>>

\* What instantiate_or_update_workflow and the rest of apply_new_poll_resp do
\* with the query_requests of a poll response, given whether they count as a
\* cache hit: folded into the jobs of the activation, or kept in the task.
QueriesPlaced(a, run, nq, njobs, hit) ==
  LET task == get_task(a.s, run) IN
  /\ a.ret.outcome.outcome \in {"IssueActivation", "Autocomplete", "LocalActsOutstanding"}
  /\ IsSome(task)
  /\ IF hit
     THEN /\ Unwrap(task).pending_queries = <<>>
          /\ njobs + nq > 0 =>
               /\ a.ret.outcome.outcome = "IssueActivation"
               /\ a.ret.outcome.act.jobs = JobsOf(njobs) \o QueriesOf(nq)
     ELSE /\ Unwrap(task).pending_queries = QueriesOf(nq)
          /\ njobs > 0 =>
               /\ a.ret.outcome.outcome = "IssueActivation"
               /\ a.ret.outcome.act.jobs = JobsOf(njobs)
          /\ njobs = 0 => a.ret.outcome.outcome /= "IssueActivation"

\* The two sentences C29 and its amendment share: the response is incremental
\* iff its history is empty or starts above event 1, and the paginator fetches
\* from the start exactly for an incremental response to an absent run.
IncrementalAndFetch(run, history, a) ==
  /\ a.ret.loc.work.incremental <=> (history = <<>> \/ Head(history) > 1)
  /\ a.ret.loc.fetch_from_start <=> (~exists(Cur, run) /\ a.ret.loc.work.incremental)

\* C29 as stated: a response is incremental iff its history is empty or its
\* first event id is above 1; exactly when the run is absent and the response
\* is incremental the paginator starts at fetch-from-start (the sticky cache
\* miss); query_requests are deferred into the task on that cache miss and
\* folded into the activation's jobs on a cache hit, when the run is present.
\* (Nothing is said here of a response with the whole history to an absent run,
\* which is neither that miss nor a hit.)
C29_Original ==
  \A run \in PolledRuns, history \in Histories, nq \in 0..MaxQueries, njobs \in 0..MaxJobs :
    (PollCanArrive(run) /\ njobs >= HeldJobs(Cur, run)) =>
      LET a == ApplyWhole(PollResp(run, nextTok, 1, IsIncremental(history), nq, FALSE), njobs) IN
      a.ret.applied =>
        /\ IncrementalAndFetch(run, history, a)
        /\ a.ret.loc.fetch_from_start => QueriesPlaced(a, run, nq, njobs, FALSE)
        /\ exists(Cur, run) => QueriesPlaced(a, run, nq, njobs, TRUE)

\* C29 (amended): the same about incremental responses and fetch-from-start;
\* query_requests are folded into the activation's jobs exactly when the
\* response is incremental and the run is present, and deferred into the task
\* otherwise: for an absent run, and for every response that carries the
\* history from its first event, whether the run is present or not.
C29_CacheMissHandling ==
  \A run \in PolledRuns, history \in Histories, nq \in 0..MaxQueries, njobs \in 0..MaxJobs :
    (PollCanArrive(run) /\ njobs >= HeldJobs(Cur, run)) =>
      LET a == ApplyWhole(PollResp(run, nextTok, 1, IsIncremental(history), nq, FALSE), njobs) IN
      a.ret.applied =>
        /\ IncrementalAndFetch(run, history, a)
        /\ QueriesPlaced(a, run, nq, njobs, exists(Cur, run) /\ IsIncremental(history))

\* A poll response with query_requests is being applied to a present run: one
\* that carries the history from its first event (queries deferred, no sticky
\* cache miss), or an incremental one (queries folded).
C29_Witness ==
  /\ poller.pc = "updating"
  /\ poller.loc.work.query_requests > 0
  /\ exists(Cur, poller.loc.work.run_id)
  /\ ~poller.loc.fetch_from_start

\* --------------------------------- successful_activation, legacy query reply
\* C30: when the run has an outstanding task and the host's reply is exactly
\* one command, the QueryResponse with id LEGACY_QUERY_ID, successful_activation
\* returns at once with RespondLegacyQuery and the task's token, and leaves the
\* machines, the pending-activation queue, the local-activity sink and all the
\* rest of the manager as they were: nothing is handed to the machines.
C30_LegacyQueryReply ==
  \A run \in PolledRuns :
    (Running /\ completion[run].pc = "idle" /\ hostHas[run] /= <<>>
       /\ IsSome(get_task(Cur, run))) =>
      LET b == successful_activation_begin(Cur, run, <<LEGACY_QUERY_ID>>) IN
      /\ b.ret.done
      /\ b.ret.ret = OkSome(RespondLegacyQuery(Unwrap(get_task(Cur, run)).task_token))
      /\ b.s = Cur

\* The host has answered the legacy query activation of a run with the query
\* response alone, and successful_activation has returned an action to send.
C30_Witness ==
  \E run \in PolledRuns :
    /\ lastOp = Log("successful_activation", run)
    /\ get_activation(Cur, run) = Some(LegacyQuery)
    /\ IsSome(get_task(Cur, run))
    /\ completion[run].pc = "report"
    /\ completion[run].result = "Ok"
    /\ completion[run].sent

\* ------------------------- successful_activation, legacy response with others
\* Replies in which the response to the legacy query comes with another command.
LegacyWithOthers ==
  {<<"cmd", LEGACY_QUERY_ID>>, <<LEGACY_QUERY_ID, "cmd">>, <<"query", LEGACY_QUERY_ID>>,
   <<LEGACY_QUERY_ID, LEGACY_QUERY_ID>>}

\* The host holds an activation of the run and can reply to it now.
HostCanReply(run) ==
  Running /\ completion[run].pc = "idle" /\ hostHas[run] /= <<>>

\* C31: when the host replies to a legacy query activation with the
\* QueryResponse with id LEGACY_QUERY_ID together with any other command,
\* successful_activation fails with a Fatal error before any command is fed to
\* the machines: the call returns without reaching the machines and the state of
\* the manager, machines included, is the one before the call.
C31_LegacyWithOthersFatal ==
  \A run \in PolledRuns, commands \in LegacyWithOthers :
    (HostCanReply(run) /\ InSeq("legacy", hostHas[run])) =>
      LET b == successful_activation_begin(Cur, run, commands) IN
      /\ b.ret.done
      /\ b.ret.ret = ErrFatal
      /\ b.s = Cur

\* ------------------------------- successful_activation, what is sent back
\* The machines of the run of slot c have taken the commands with answer m and
\* the wait for local activities has returned must_heartbeat: what
\* successful_activation returns, and whether the claim's conditions say so.
DecisionAsClaimed(c, m, must_heartbeat) ==
  LET run == completion[c].run
      loc == completion[c].loc
      u == successful_activation_update(Cur, run, loc, m)
      loc2 == [task_token |-> loc.task_token,
               has_query_responses |-> loc.has_query_responses,
               held_back |-> held_back(loc, m)]
      ret == successful_activation_finish(u.s, run, loc2, must_heartbeat)
      blocked == \/ has_pending(u.s, run)
                 \/ m.replaying
                 \/ loc.has_pending_query
                 \/ (loc.activation_was_only_eviction /\ ~m.server_cmds)
  IN u.ret =>
       /\ IsSome(ret.action) <=> (loc.has_query_responses \/ ~blocked)
       /\ IsSome(ret.action) => ret = OkSome(WftComplete(loc.task_token, must_heartbeat))
       /\ ret.result = "Ok"

\* C32: on the non-legacy path successful_activation returns a WftComplete
\* action if and only if the reply has query responses, or none of these holds:
\* the run has a pending activation, the machines are still replaying, the task
\* has pending queries, the activation was eviction-only and the machines
\* produced no commands; otherwise it returns no action.
C32_WhenToRespond ==
  \A c \in Slots :
    /\ (Running /\ completion[c].pc = "update") =>
         \A must_heartbeat \in BOOLEAN :
           \A m \in MachineAnswers(IF exists(Cur, completion[c].run)
                                   THEN RunOf(Cur, completion[c].run).las ELSE MaxLA) :
             DecisionAsClaimed(c, m, must_heartbeat)
    /\ (Running /\ completion[c].pc = "wait") =>
         \A must_heartbeat \in BOOLEAN :
           LET loc == completion[c].loc
               ret == successful_activation_finish(Cur, completion[c].run, loc, must_heartbeat)
           IN /\ IsSome(ret.action) <=>
                   (loc.has_query_responses
                      \/ ~(has_pending(Cur, completion[c].run) \/ loc.held_back))
              /\ IsSome(ret.action) => ret = OkSome(WftComplete(loc.task_token, must_heartbeat))

\* A completion without query responses is at the machines while the run has a
\* pending activation queued, and another one can be answered at once.
C32_Witness ==
  \E c \in Slots :
    /\ completion[c].pc = "update"
    /\ ~completion[c].loc.has_query_responses
    /\ ~completion[c].loc.has_pending_query
    /\ has_pending(Cur, completion[c].run)

\* ------------------------------------------------ poll(), the cancel branch
\* This step is poll() taking the pending cancel at the head of the queue.
TakesCancel ==
  /\ pending_cancels /= <<>> /\ pending_cancels' = Tail(pending_cancels)
  /\ actLast'.op = "poll" /\ actLast'.branch = "cancel"
CancelIssued(map, tok) == Tracked(map, tok) /\ Unwrap(map[tok]).issued_cancel_to_lang

\* C33: for each task token at most one cancel ActivityTask is ever returned:
\* a cancel is returned only for a tracked activity without issued_cancel_to_lang,
\* which the step sets; it stays set until the entry is removed, and a token
\* once removed is never tracked again. A pending cancel for a token that is
\* not tracked, or that has its cancel already, returns Ok(None) and changes
\* nothing in the map. known_not_found is set only by a step that issues the
\* cancel for reason NotFound, and never without issued_cancel_to_lang.
C33_CancelOncePerToken ==
  /\ [](\A tok \in ActTokens :
          KnownNotFound(outstanding_activity_tasks, tok)
            => CancelIssued(outstanding_activity_tasks, tok))
  /\ [][\A tok \in ActTokens :
          /\ (TakesCancel /\ Head(pending_cancels).task_token = tok) =>
               IF Tracked(outstanding_activity_tasks, tok)
                  /\ ~CancelIssued(outstanding_activity_tasks, tok)
               THEN /\ actLast'.ret = [result |-> "Ok",
                                       task |-> Some([kind |-> "cancel", task_token |-> tok])]
                    /\ CancelIssued(outstanding_activity_tasks', tok)
                    /\ KnownNotFound(outstanding_activity_tasks', tok)
                         <=> Head(pending_cancels).reason = "NotFound"
                    /\ \A other \in ActTokens \ {tok} :
                         outstanding_activity_tasks'[other] = outstanding_activity_tasks[other]
               ELSE /\ actLast'.ret = [result |-> "Ok", task |-> None]
                    /\ outstanding_activity_tasks' = outstanding_activity_tasks
          /\ CancelIssued(outstanding_activity_tasks, tok) =>
               \/ CancelIssued(outstanding_activity_tasks', tok)
               \/ ~Tracked(outstanding_activity_tasks', tok)
          /\ (tok < nextActTok /\ ~Tracked(outstanding_activity_tasks, tok)) =>
               ~Tracked(outstanding_activity_tasks', tok)
          /\ (~KnownNotFound(outstanding_activity_tasks, tok)
                /\ KnownNotFound(outstanding_activity_tasks', tok)) =>
               /\ TakesCancel
               /\ Head(pending_cancels) = [task_token |-> tok, reason |-> "NotFound"]]_vars

\* Only activity 1 was handed out and two cancels were asked for it: poll() has
\* issued the first and returned Ok(None) for the second; it is still tracked.
C33_Witness ==
  /\ actLast.op = "poll" /\ actLast.branch = "cancel"
  /\ actLast.ret = [result |-> "Ok", task |-> None]
  /\ cancelsMade = 2 /\ pending_cancels = <<>>
  /\ nextActTok = 2
  /\ CancelIssued(outstanding_activity_tasks, 1)

\* -------------------------------------------------- waiting for cache capacity
\* The poll loop, past a next_pending_activation that returned nothing, calls
\* wait_for_cache_capacity and is handed a future: it suspends on it.
WaitForCacheCapacity ==
  /\ Running
  /\ poller.pc = "drained"
  /\ sticky
  /\ wait_for_cache_capacity(Cur)
  /\ poller' = CacheWait(FALSE)
  /\ Commit(Cur)
  /\ lastOp' = Log("wait_for_cache_capacity", "")
  /\ UNCHANGED <<completion, hostHas, server, sinceReport>>

\* The future, woken by the pulse of a remove, looks again: it resolves when the
\* cache has room or no eviction is pending, and goes on waiting otherwise.
CacheWaitWake ==
  /\ Running
  /\ poller.pc = "cache_wait"
  /\ poller.pulsed
  /\ poller' = IF wait_for_cache_capacity(Cur) THEN CacheWait(FALSE) ELSE Drained
  /\ Commit(Cur)
  /\ lastOp' = Log("wait_for_capacity", "")
  /\ UNCHANGED <<completion, hostHas, server, sinceReport>>

\* The poll loop is notified of pending work while it waits: it drops the future
\* and starts over.
CacheWaitRestart ==
  /\ Running
  /\ poller.pc = "cache_wait"
  /\ pending_activations /= <<>> \/ pending_queries /= <<>>
  /\ poller' = Idle
  /\ Commit(Cur)
  /\ lastOp' = Log("notified", "")
  /\ UNCHANGED <<completion, hostHas, server, sinceReport>>

NextCapacity ==
  \/ NextCache
  \/ WaitForCacheCapacity
  \/ CacheWaitWake
  \/ CacheWaitRestart

\* The sticky cache of two runs with the poll loop's wait for capacity; a future
\* that was pulsed gets to look again.
SpecCapacity == InitCache /\ [][NextCapacity]_vars /\ WF_vars(CacheWaitWake)

PendingEvictions(s) == is_some_eviction(s) \/ are_outstanding_evictions(s)
CacheFull == Len(cache_manager) >= CacheCap

\* C34: wait_for_cache_capacity returns None whenever no eviction is pending or
\* outstanding, even if the cache is full; a caller suspended on the future it
\* returned is never left with a full cache and no eviction pending unless the
\* pulse of a remove is there to wake it, and whenever the cache has room or
\* the pending evictions are gone the future resolves (or, if an eviction is
\* requested before it looks, waits for that one).
C34_WaitForCacheCapacity ==
  /\ [](~PendingEvictions(Cur) => ~wait_for_cache_capacity(Cur))
  /\ [](poller.pc = "cache_wait" =>
          \/ PendingEvictions(Cur) /\ CacheFull
          \/ poller.pulsed)
  /\ (poller.pc = "cache_wait" /\ ~wait_for_cache_capacity(Cur))
       ~> (poller.pc /= "cache_wait" \/ wait_for_cache_capacity(Cur))

\* The poll loop waits on the future, the eviction it waited for is done and the
\* cache is still full (of the other run): the pulse of the remove wakes it.
C34_Witness ==
  /\ poller.pc = "cache_wait"
  /\ poller.pulsed
  /\ ~PendingEvictions(Cur)
  /\ CacheFull

\* ------------------------------------------------------ when a run is evicted
\* This step is after_wft_report for a completion of the run.
ReportsRun(run) ==
  /\ \E c \in Slots : completion[c].pc = "report" /\ completion[c].run = run
                      /\ completion'[c] = Idle
  /\ lastOp' = Log("after_wft_report", run)

\* C35 without its last clause: the machines of a run are removed only by
\* after_wft_report for a run whose OutstandingActivation contains an eviction
\* job; request_eviction only queues a notice.
C35_EvictedOnlyAtReport ==
  [][\A run \in Runs :
       /\ (exists(Cur, run) /\ workflow_machines'[run] = None) =>
            /\ ReportsRun(run)
            /\ activation_has_eviction(Cur, run)
       /\ lastOp' = Log("request_eviction", run) =>
            /\ workflow_machines' = workflow_machines
            /\ cache_manager' = cache_manager
            /\ \A i \in 1..Len(pending_activations) :
                 pending_activations'[i].run_id = pending_activations[i].run_id]_vars

\* C35: a run is not evicted by requesting eviction: request_eviction only
\* queues a notice, and the machines are removed only inside after_wft_report
\* for a run whose OutstandingActivation contains an eviction job, that is only
\* after the eviction activation was issued to the host and replied to (the host
\* no longer holds it).
C35_EvictedAfterReply ==
  [][\A run \in Runs :
       /\ (exists(Cur, run) /\ workflow_machines'[run] = None) =>
            /\ ReportsRun(run)
            /\ activation_has_eviction(Cur, run)
            /\ ~InSeq("jobs", hostHas[run])
       /\ lastOp' = Log("request_eviction", run) =>
            /\ workflow_machines' = workflow_machines
            /\ cache_manager' = cache_manager
            /\ \A i \in 1..Len(pending_activations) :
                 pending_activations'[i].run_id = pending_activations[i].run_id]_vars

\* ------------------------------------------------- what becomes of a notice
\* NextPendingActivation takes a step when the poll loop is at its top and the
\* call has something to do: it returns an activation the host has room for, or
\* it takes an entry out of the pending-activation queue.
EnNpa ==
  /\ Running /\ AtLoopTop
  /\ LET n == next_pending_activation(Cur) IN
     IF IsSome(n.ret) THEN Len(hostHas[Unwrap(n.ret).run_id]) < MaxHost
     ELSE n.s.pa /= pending_activations

\* The workflow task manager without local activities, where every activation
\* issued is replied to, the worker finishes the completions it began and the
\* poll loop keeps calling next_pending_activation.
SpecEvictions ==
  /\ Init /\ [][NextQueries]_vars
  /\ WF_vars(\E update_ok \in BOOLEAN, njobs \in 0..MaxJobs : ApplyFinish(update_ok, njobs))
  /\ WF_vars(\E run \in PolledRuns, commands \in HostCommands : HostReplySuccess(run, commands))
  /\ WF_vars(\E c \in Slots : \E m \in CacheAnswers : SuccessfulActivationUpdate(c, m))
  /\ \/ []<>(~EnReport)
     \/ []<><<\E c \in Slots, saw_final \in BOOLEAN : AfterWftReport(c, saw_final)>>_vars
  /\ \/ []<>(~EnNpa)
     \/ []<><<NextPendingActivation>>_vars

\* An eviction notice of the run is in the pending-activation queue.
NoticeQueued(run) ==
  \E i \in 1..Len(pending_activations) :
    pending_activations[i].run_id = run /\ IsSome(pending_activations[i].needs_eviction)

\* C36: an eviction request is never lost: once the notice of a run is queued,
\* with every issued activation replied to and next_pending_activation called
\* again and again, an activation with the eviction job of the run is eventually
\* returned by next_pending_activation (it is then the run's OutstandingActivation),
\* or the run is evicted, or the worker has stopped on a panic.
C36_EvictionNeverLost ==
  \A run \in PolledRuns :
    NoticeQueued(run) ~>
      (activation_has_eviction(Cur, run) \/ ~exists(Cur, run) \/ ~Running)

\* C37: a run is never removed from the concurrency manager while a completion
\* for it is in progress: neither the read of the local-activity count in
\* wait_for_local_acts_or_heartbeat ('Workflow cannot go missing') nor the read
\* of the task in after_wft_report ('Machine must exist') ever finds the run gone.
C37_RunExistsDuringCompletion ==
  /\ "Workflow cannot go missing" \notin panics
  /\ "Machine must exist" \notin panics

\* ------------------------------------- the recursion of next_pending_activation
\* recursive calls of next_pending_activation the model follows
MaxNpaCalls == 4

\* What the machines of a run may be when next_pending_activation looks at them.
PendingShapes ==
  {None} \cup
  {Some([NewRun EXCEPT !.mjobs = j, !.activation = a]) :
     j \in 0..MaxJobs, a \in {None, Some(Normal(FALSE, 1))}}

\* The pending-activation queues: at most one entry per run.
PendingQueues ==
  LET Entries == {PendingActInfo(run, e) : run \in Runs, e \in {None, Some("CacheFull")}} IN
  {<<>>} \cup {<<e>> : e \in Entries}
         \cup {<<e, f>> : <<e, f>> \in {p \in Entries \X Entries : p[1].run_id /= p[2].run_id}}

\* The poll loop inside next_pending_activation, about to make a recursive call:
\* calls counts the calls made so far, queued the entries queued at the first call.
InNpa(calls, queued) == [pc |-> "npa", calls |-> calls, queued |-> queued]

\* Any machines and any queue; among them the states in the middle of evict_run on
\* another thread, where the machines of a run are gone and its entry is still queued.
InitPending ==
  /\ workflow_machines \in [Runs -> PendingShapes]
  /\ pending_activations \in PendingQueues
  /\ pending_queries = <<>>
  /\ ready_buffered_wft = <<>>
  /\ cache_manager = <<>>
  /\ sticky = FALSE
  /\ panics = {}
  /\ poller = Idle
  /\ completion = [c \in Slots |-> Idle]
  /\ hostHas = [r \in Runs |-> <<>>]
  /\ nextTok = 1
  /\ arrivedBusy = {}
  /\ parked = {}
  /\ lastOp = Log("init", "")
  /\ sinceReport = [r \in Runs |-> TRUE]
  /\ ActInit

\* What a call of next_pending_activation came to.
NpaOutcome(call, calls, queued) ==
  /\ Commit(call.s)
  /\ lastOp' = Log("next_pending_activation",
                   IF IsSome(call.ret) THEN Unwrap(call.ret).run_id ELSE "")
  /\ poller' = IF call.again THEN InNpa(calls, queued)
               ELSE IF IsSome(call.ret) THEN Idle ELSE Drained
  /\ IF IsSome(call.ret) THEN Issue(Unwrap(call.ret))
     ELSE UNCHANGED <<hostHas, sinceReport>>
  /\ UNCHANGED <<completion, server>>

\* The poll loop calls next_pending_activation.
NextPendingActivationCall ==
  /\ Running /\ AtLoopTop
  /\ NpaOutcome(next_pending_activation_call(Cur), 1, Len(pending_activations))

\* next_pending_activation calls itself.
NextPendingActivationRecursion ==
  /\ Running /\ poller.pc = "npa" /\ poller.calls < MaxNpaCalls
  /\ NpaOutcome(next_pending_activation_call(Cur), poller.calls + 1, poller.queued)

NextPending == NextPendingActivationCall \/ NextPendingActivationRecursion
SpecPending ==
  InitPending /\ [][NextPending]_vars /\ WF_vars(NextPendingActivationRecursion)

\* C38: next_pending_activation always terminates: a call that finds the machines
\* of the popped entry missing leaves the queue without that entry (the Fatal
\* eviction request of the unknown run queues nothing), so every recursive call
\* starts on a shorter queue, there are at most as many recursive calls as
\* entries were queued, and the call returns.
C38_NpaTerminates ==
  /\ [](poller.pc = "npa" => poller.calls + Len(pending_activations) <= poller.queued)
  /\ [][poller'.pc = "npa" =>
          /\ Len(pending_activations') < Len(pending_activations)
          /\ \E i \in 1..Len(pending_activations) :
               /\ ~exists(Cur, pending_activations[i].run_id)
               /\ pending_activations' = SeqRemoveAt(pending_activations, i)]_vars
  /\ (poller.pc = "npa") ~> (poller.pc /= "npa")

\* Both entries queued were of runs without machines: after two calls the queue is
\* empty and the third call is about to return None.
C38_Witness ==
  /\ poller = InNpa(2, 2)
  /\ pending_activations = <<>>
  /\ \A run \in Runs : ~exists(Cur, run)

====
